---- MODULE Spec2Model ----
(***************************************************************************)
(* A model of the CION node core (fancl20/cion):                           *)
(*   - the data-plane forwarder, Router.Process (pkg/dataplane/router.go); *)
(*   - the bbolt trust store (pkg/trust/impl/bbolt/db.go);                 *)
(*   - the TRC state machine (pkg/pki/trcs.go);                            *)
(*   - the certificate bundle (pkg/pki/certificates.go);                   *)
(*   - the generation of TRCs from a bundle (pkg/pki/trcs.go);             *)
(*   - the direct-link client and the control plane                        *)
(*     (pkg/controlplane/client.go, impl.go).                              *)
(* Each subsystem has its own specification over the shared variables:     *)
(*   SpecRouter, SpecTrust, SpecTRCs, SpecCerts, SpecGen and SpecControl;  *)
(*   SpecMonitor is the probe loop of the direct-link client under the     *)
(*   fairness that the Go scheduler and select give it.                    *)
(* Three more specifications interleave the steps of concurrent calls:     *)
(*   SpecPool (Process calls that share the processor pool), SpecLock      *)
(*   (GetPaths and SetActiveDirectPath around directPathsMx) and           *)
(*   SpecWriters (InsertTRC calls, each in a bbolt write transaction).     *)
(***************************************************************************)
EXTENDS Integers, Sequences, FiniteSets, TLC

VARIABLES
    macFactory,   \* Router.MacFactory: "nil" or "cmac"
    pc,           \* where the forwarder's caller is: "idle", "done"
    pre,          \* the packet buffer handed to the last Process call
    pkt,          \* the same buffer after that call
    ingressID,    \* the ingressID argument of the last Process call
    now,          \* what time.Now() returned in the last Process call (ms)
    res,          \* outcome of the last Process call
    trcs,         \* bbolt bucket "trcs":   ISD string -> (key -> value)
    chains,       \* bbolt bucket "chains": IA string  -> (key -> value)
    preTrcs,      \* bucket "trcs" before the last trust-store call
    preChains,    \* bucket "chains" before the last trust-store call
    call,         \* the last trust-store call: [op, arg]
    ret,          \* what the last trust-store call returned
    machineISD,   \* TRCs.isd
    current,      \* TRCs.current: <<>> for nil, else <<the TRC>>
    pending,      \* TRCs.pending
    certs,        \* Certificates.certs: CertType -> certificate
    privKeys,     \* Certificates.keys:  CertType -> private key
    nCreate,      \* how many Create calls the bundle has served
    prePki,       \* the fields above before the last pki call
    pkiCall,      \* the last pki call: [op, arguments]
    pkiRet,       \* what the last pki call returned
    cpPc,         \* where MonitorNeighbors is: "new", "select", "round",
                  \* "probing", "returned"
    cancelled,    \* the context given to MonitorNeighbors is done
    tickPending,  \* a tick waits in ticker.C (a channel of capacity one)
    todo,         \* neighbors the current round has yet to probe
    inFlight,     \* the neighbor whose beacon request is in flight, and
                  \* whether the context was done when it was sent
    table,        \* ControlPlaneImpl.activeDirectPaths
    localTrust,   \* what the local trust store was handed
    reliable,     \* the neighbors that answer every beacon with 200
    preTable,     \* activeDirectPaths before the last step
    cpEvent,      \* the last step of the control plane and its outcome
    ok200,        \* neighbors of which a probe completed with 200
    roundsDone,   \* probe rounds completed (counted up to 2)
    roundsAfterCancel,  \* probe rounds begun after the cancellation (up to 2)
    ticksAfterCancel,   \* ticks fired after the cancellation (up to 2)
    pendingAtCancel,    \* a tick was pending when the context was cancelled
    probes,       \* how often the current round has probed each neighbor
    poolOnce,     \* Router.poolOnce: "new", "running", "done"
    procPool,     \* Router.pool: the processors that are in the pool
    procs,        \* the packetProcessors made so far, and what each holds
    procCalls,    \* the concurrent calls of Process, one per task
    directPathsMx,  \* ControlPlaneImpl.directPathsMx
    lockCalls,    \* the concurrent calls of GetPaths and SetActiveDirectPath
    completedWrite, \* destination -> the path of the last completed
                  \* SetActiveDirectPath call
    dbMx,         \* the writer lock of the bbolt DB: the task that holds it
    txs           \* the concurrent InsertTRC calls, one per task

routerVars == <<macFactory, pc, pre, pkt, ingressID, now, res>>
trustVars  == <<trcs, chains, preTrcs, preChains, call, ret>>
pkiVars    == <<machineISD, current, pending, certs, privKeys, nCreate,
                prePki, pkiCall, pkiRet>>
cpVars     == <<cpPc, cancelled, tickPending, todo, inFlight, table, localTrust,
                reliable, preTable, cpEvent, ok200, roundsDone,
                roundsAfterCancel, ticksAfterCancel, pendingAtCancel, probes>>
concVars   == <<poolOnce, procPool, procs, procCalls, directPathsMx, lockCalls,
                completedWrite, dbMx, txs>>
vars       == <<macFactory, pc, pre, pkt, ingressID, now, res,
                trcs, chains, preTrcs, preChains, call, ret,
                machineISD, current, pending, certs, privKeys, nCreate,
                prePki, pkiCall, pkiRet,
                cpPc, cancelled, tickPending, todo, inFlight, table, localTrust,
                reliable, preTable, cpEvent, ok200, roundsDone,
                roundsAfterCancel, ticksAfterCancel, pendingAtCancel, probes,
                poolOnce, procPool, procs, procCalls, directPathsMx, lockCalls,
                completedWrite, dbMx, txs>>

(***************************************************************************)
(* Bounds of the model.                                                    *)
(***************************************************************************)
\* hop.ExpTime ranges over 0..MaxExpTime (uint8 in the code)
MaxExpTime == 1
\* every generated path has one info field and PathHops hop fields
PathHops == 2
\* the trust store holds at most MaxStored entries (TRCs and chains)
MaxStored == 2
\* a certificate bundle serves at most MaxCreates Create calls
MaxCreates == 2

(***************************************************************************)
(* Bit arithmetic.                                                         *)
(***************************************************************************)
RECURSIVE Xor(_, _)
Xor(a, b) ==
    IF a = 0 /\ b = 0 THEN 0
    ELSE (((a % 2) + (b % 2)) % 2) + 2 * Xor(a \div 2, b \div 2)

(***************************************************************************)
(*                       DATA PLANE: Router.Process                        *)
(***************************************************************************)

\* Router.LocalIA and one foreign IA
LocalIA == "1-ff00:0:1"
OtherIA == "1-ff00:0:2"
IAs == {LocalIA, OtherIA}

\* Router.ExternalNextHops: interface ID -> underlay address of the peer
ExternalNextHops ==
    (1 :> [ip |-> "192.168.1.1", port |-> 50000]) @@
    (2 :> [ip |-> "192.168.1.2", port |-> 50000])

\* interface IDs seen in packets and as ingressID; 3 has no next hop
IfIDs == 0..3

\* SegID and the leading MAC bytes that UpdateSegID folds into it
MacVals == 0..3
SegIDs == 0..3

ExpTimes == 0..MaxExpTime
\* info.Timestamp, in seconds since the epoch
Timestamps == {1000}

\* path.ExpTimeToDuration(e) = (e + 1) * 24h / 256, in milliseconds
ExpUnit == 337500
ExpTimeToDuration(e) == (e + 1) * ExpUnit

\* ts.Add(path.ExpTimeToDuration(hop.ExpTime)), in milliseconds
Expires(info, hop) == info.Timestamp * 1000 + ExpTimeToDuration(hop.ExpTime)

\* clock readings: each possible expiry instant and the millisecond after it
Times ==
    UNION {{Expires([Timestamp |-> ts], [ExpTime |-> e]),
            Expires([Timestamp |-> ts], [ExpTime |-> e]) + 1}
           : ts \in Timestamps, e \in ExpTimes}

\* slayers address types: T4Ip and T4Svc parse, any other combination of
\* type and length does not (slayers.ParseAddr)
AddrTypes == {"T4Ip", "T4Svc", "Unsupported"}
DstHost == "10.0.0.100"

NoAddr == [ip |-> "", port |-> 0]
NextHop(a) == [kind |-> "NextHop", err |-> "", addr |-> a]
Err(e) == [kind |-> "error", err |-> e, addr |-> NoAddr]
\* addr.Host.IP() called on a non-IP host address panics
Panic == [kind |-> "panic", err |-> "IP called on non-IP address", addr |-> NoAddr]
NoResult == [kind |-> "none", err |-> "", addr |-> NoAddr]

IsError(r) == r.kind = "error"

\* the hop fields of a path that are not the current one
FillerHop == [ConsIngress |-> 0, ConsEgress |-> 0, ExpTime |-> 0, Mac |-> 0]

\* the info fields of a path that are not the current one
FillerInfo == [ConsDir |-> TRUE, Timestamp |-> 1000, SegID |-> 0]

\* scion.Base.DecodeFromBytes: NumINF is the number of segments and NumHops
\* the sum of their lengths; a segment of length 0 before a longer one is
\* an error
SegLenOK(segLen) == \A i \in 1..2 : segLen[i] = 0 => segLen[i + 1] = 0
NumINF(segLen) == Cardinality({i \in 1..3 : segLen[i] > 0})
NumHops(segLen) == segLen[1] + segLen[2] + segLen[3]

\* A packet buffer.  decodes = FALSE stands for every buffer that
\* DecodeLayers rejects.  path.Rsv is the set of the parts of the path
\* header in which some reserved bit is 1: "meta" for the RSV bits of the
\* meta header, "info" for the flags and RSV byte of the info fields, "hop"
\* for the flags of the hop fields.
MkSegPacket(dstIA, dstType, segLen, currINF, currHF, info, hop, rsv) ==
    [decodes |-> TRUE, DstIA |-> dstIA, DstAddrType |-> dstType,
     RawDstAddr |-> DstHost,
     path |-> [CurrINF |-> currINF, CurrHF |-> currHF,
               Rsv |-> rsv, SegLen |-> segLen,
               InfoFields |-> [i \in 1..NumINF(segLen) |->
                                 IF i = currINF + 1 THEN info ELSE FillerInfo],
               HopFields |-> [i \in 1..NumHops(segLen) |->
                                 IF i = currHF + 1 THEN hop ELSE FillerHop]]]

\* a packet with a path of one segment and no reserved bit set
MkPacket(dstIA, dstType, currHF, info, hop) ==
    MkSegPacket(dstIA, dstType, <<PathHops, 0, 0>>, 0, currHF, info, hop, {})

Garbage ==
    [decodes |-> FALSE, DstIA |-> OtherIA, DstAddrType |-> "T4Ip",
     RawDstAddr |-> DstHost,
     path |-> [CurrINF |-> 0, CurrHF |-> 0,
               Rsv |-> {}, SegLen |-> <<PathHops, 0, 0>>,
               InfoFields |-> <<FillerInfo>>,
               HopFields |-> [i \in 1..PathHops |-> FillerHop]]]

InfoFieldSet == [ConsDir : BOOLEAN, Timestamp : Timestamps, SegID : SegIDs]
HopFieldSet ==
    [ConsIngress : IfIDs, ConsEgress : IfIDs, ExpTime : ExpTimes, Mac : MacVals]

\* paths of two segments, and a malformed one whose first segment is empty
SegLens == {<<1, PathHops - 1, 0>>, <<0, PathHops, 0>>}
SegHopFieldSet ==
    [ConsIngress : 0..2, ConsEgress : 0..2, ExpTime : {0}, Mac : MacVals]
RsvSets == {{}, {"meta"}, {"info", "hop"}}

\* packets for the local host on paths of two segments, with and without
\* reserved bits set; CurrINF = 2 is an info index out of bounds
SegPackets ==
    {MkSegPacket(LocalIA, "T4Ip", s, ci, c, i, h, r) :
        s \in SegLens, ci \in 0..2, c \in 0..(PathHops - 1),
        i \in InfoFieldSet, h \in SegHopFieldSet, r \in RsvSets}

\* CurrHF = PathHops is a hop index out of bounds
Packets ==
    {Garbage} \cup
    {MkPacket(d, t, c, i, h) :
        d \in IAs, t \in AddrTypes, c \in 0..PathHops,
        i \in InfoFieldSet, h \in HopFieldSet}
    \cup SegPackets

(***************************************************************************)
(* The path library, as Process uses it.                                   *)
(***************************************************************************)
\* scion.Decoded.DecodeFromBytes: the decoded path holds the fields of the
\* meta header, the counts derived from SegLen, and the info and hop fields;
\* the structs have no member for the reserved bits, which are dropped
DecodeFromBytes(raw) ==
    [ok |-> SegLenOK(raw.SegLen),
     CurrINF |-> raw.CurrINF, CurrHF |-> raw.CurrHF, SegLen |-> raw.SegLen,
     NumINF |-> NumINF(raw.SegLen), NumHops |-> NumHops(raw.SegLen),
     InfoFields |-> raw.InfoFields, HopFields |-> raw.HopFields]

\* scion.Decoded.SerializeTo: MetaHdr, InfoField and HopField SerializeTo
\* write every member of the decoded path and write 0 to every reserved bit
SerializeTo(sp) ==
    [CurrINF |-> sp.CurrINF, CurrHF |-> sp.CurrHF,
     Rsv |-> {}, SegLen |-> sp.SegLen,
     InfoFields |-> sp.InfoFields, HopFields |-> sp.HopFields]

\* info.UpdateSegID(hop.Mac): SegID ^= the leading two bytes of the MAC
UpdateSegID(info, mac) == [info EXCEPT !.SegID = Xor(@, mac)]

\* path.MAC(h, info, hop, buf): a keyed digest of SegID, Timestamp, ExpTime,
\* ConsIngress and ConsEgress, truncated to the length of hop.Mac
MAC(info, hop) ==
    (info.SegID + 3 * (info.Timestamp % 4) + hop.ExpTime
       + 2 * hop.ConsIngress + 3 * hop.ConsEgress + 1) % 4

(***************************************************************************)
(* The steps of Process.                                                   *)
(***************************************************************************)
\* a bug: !time.Now().Before(expires) in place of After
Expired_NotBefore(t, info, hop) == t >= Expires(info, hop)

\* step 3: time.Now().After(expires)
Expired(t, info, hop) == t > Expires(info, hop)

\* a bug: the expected ingress taken from ConsIngress whatever the direction
InID_IgnoresDirection(info, hop) == hop.ConsIngress

\* step 4: direction resolution
InID(info, hop) == IF info.ConsDir THEN hop.ConsIngress ELSE hop.ConsEgress
OutID(info, hop) == IF info.ConsDir THEN hop.ConsEgress ELSE hop.ConsIngress

\* a bug: the SegID folded against construction direction also for a
\* packet that comes from the local host
IngressInfo_AlsoFromHost(I, info, hop) ==
    IF ~info.ConsDir THEN UpdateSegID(info, hop.Mac) ELSE info

\* step 5: the ingress router's SegID update against construction direction
IngressInfo(I, info, hop) ==
    IF I # 0 /\ ~info.ConsDir THEN UpdateSegID(info, hop.Mac) ELSE info

\* a bug: the result of the comparison read the wrong way round
MACVerified_Inverted(mf, info, hop) == mf = "nil" \/ hop.Mac # MAC(info, hop)

\* step 6: the MAC is verified only when the processor holds a hash (proc.mac),
\* which the pool creates only when Router.MacFactory is not nil
MACVerified(mf, info, hop) == mf = "nil" \/ hop.Mac = MAC(info, hop)

\* a bug: local delivery without the DstIA check
LocalDelivery_NoDstCheck(P, sp) ==
    [res |-> NextHop([ip |-> P.RawDstAddr, port |-> 0]),
     pkt |-> [P EXCEPT !.path = SerializeTo(sp)]]

\* step 7, local delivery: DstIA check, commit of the path, DstAddr, IP()
LocalDelivery(P, sp) ==
    IF P.DstIA # LocalIA
    THEN [res |-> Err("LocalDestinationMismatch"), pkt |-> P]
    ELSE LET committed == [P EXCEPT !.path = SerializeTo(sp)] IN
         CASE P.DstAddrType = "Unsupported" ->
                [res |-> Err("InvalidDstAddr"), pkt |-> committed]
           [] P.DstAddrType = "T4Svc" ->
                [res |-> Panic, pkt |-> committed]
           [] OTHER ->
                [res |-> NextHop([ip |-> P.RawDstAddr, port |-> 0]),
                 pkt |-> committed]

\* a bug: the path written back before CurrHF is incremented
processEgress_WriteBeforeIncrement(P, sp, info, hop, nextHopAddr) ==
    IF sp.CurrHF + 1 >= sp.NumHops
    THEN [res |-> Err("PathOverflow"), pkt |-> P]
    ELSE [res |-> NextHop(nextHopAddr),
          pkt |-> [P EXCEPT !.path = SerializeTo(sp)]]

\* a bug: the path written back before the bounds check
processEgress_CommitBeforeCheck(P, sp, info, hop, nextHopAddr) ==
    LET sp1 == IF info.ConsDir
               THEN [sp EXCEPT !.InfoFields[sp.CurrINF + 1] =
                                   UpdateSegID(info, hop.Mac)]
               ELSE sp
        sp2 == [sp1 EXCEPT !.CurrHF = (@ + 1) % 256]
        committed == [P EXCEPT !.path = SerializeTo(sp2)]
    IN  IF sp2.CurrHF >= sp2.NumHops
        THEN [res |-> Err("PathOverflow"), pkt |-> committed]
        ELSE [res |-> NextHop(nextHopAddr), pkt |-> committed]

\* processEgress: SegID update in construction direction, CurrHF++, bounds
\* check, write back
processEgress(P, sp, info, hop, nextHopAddr) ==
    LET sp1 == IF info.ConsDir
               THEN [sp EXCEPT !.InfoFields[sp.CurrINF + 1] =
                                   UpdateSegID(info, hop.Mac)]
               ELSE sp
        sp2 == [sp1 EXCEPT !.CurrHF = (@ + 1) % 256]
    IN  IF sp2.CurrHF >= sp2.NumHops
        THEN [res |-> Err("PathOverflow"), pkt |-> P]
        ELSE [res |-> NextHop(nextHopAddr),
              pkt |-> [P EXCEPT !.path = SerializeTo(sp2)]]

\* a bug: the egress looked up in ExternalNextHops before the MAC is verified
Process_LookupBeforeMAC(mf, P, I, t) ==
    IF ~P.decodes THEN [res |-> Err("InvalidPacket"), pkt |-> P] ELSE
    LET sp == DecodeFromBytes(P.path) IN
    IF ~sp.ok THEN [res |-> Err("InvalidPacket"), pkt |-> P] ELSE
    IF sp.CurrINF >= Len(sp.InfoFields) \/ sp.CurrHF >= Len(sp.HopFields)
    THEN [res |-> Err("InvalidPacket"), pkt |-> P] ELSE
    LET info0 == sp.InfoFields[sp.CurrINF + 1]
        hop   == sp.HopFields[sp.CurrHF + 1]
        inID  == InID(info0, hop)
        outID == OutID(info0, hop)
    IN
    IF Expired(t, info0, hop) THEN [res |-> Err("HopExpired"), pkt |-> P] ELSE
    IF I # 0 /\ I # inID THEN [res |-> Err("IngressMismatch"), pkt |-> P] ELSE
    LET info == IngressInfo(I, info0, hop)
        sp1  == [sp EXCEPT !.InfoFields[sp.CurrINF + 1] = info]
    IN
    IF outID # 0 /\ outID \notin DOMAIN ExternalNextHops
    THEN [res |-> Err("UnknownExternalInterface"), pkt |-> P] ELSE
    IF ~MACVerified(mf, info, hop) THEN [res |-> Err("MACInvalid"), pkt |-> P] ELSE
    IF I # 0 /\ outID = 0 THEN LocalDelivery(P, sp1) ELSE
    IF outID = 0 THEN [res |-> Err("EgressZeroFromInternal"), pkt |-> P]
    ELSE processEgress(P, sp1, info, hop, ExternalNextHops[outID])

\* Router.Process from step 2 on: what it does with the layer and the path
\* that the processor has decoded from the buffer P
Forward(mf, P, sp, I, t) ==
    IF sp.CurrINF >= Len(sp.InfoFields) \/ sp.CurrHF >= Len(sp.HopFields)
    THEN [res |-> Err("InvalidPacket"), pkt |-> P] ELSE
    LET info0 == sp.InfoFields[sp.CurrINF + 1]
        hop   == sp.HopFields[sp.CurrHF + 1]
        inID  == InID(info0, hop)
        outID == OutID(info0, hop)
    IN
    IF Expired(t, info0, hop) THEN [res |-> Err("HopExpired"), pkt |-> P] ELSE
    IF I # 0 /\ I # inID THEN [res |-> Err("IngressMismatch"), pkt |-> P] ELSE
    LET info == IngressInfo(I, info0, hop)
        sp1  == [sp EXCEPT !.InfoFields[sp.CurrINF + 1] = info]
    IN
    IF ~MACVerified(mf, info, hop) THEN [res |-> Err("MACInvalid"), pkt |-> P] ELSE
    IF I # 0 /\ outID = 0 THEN LocalDelivery(P, sp1) ELSE
    IF outID = 0 THEN [res |-> Err("EgressZeroFromInternal"), pkt |-> P] ELSE
    IF outID \notin DOMAIN ExternalNextHops
    THEN [res |-> Err("UnknownExternalInterface"), pkt |-> P]
    ELSE processEgress(P, sp1, info, hop, ExternalNextHops[outID])

\* Router.Process(packet, ingressID), reading the clock as t, on a router
\* whose MacFactory is mf: the returned value and the buffer afterwards
Process(mf, P, I, t) ==
    IF ~P.decodes THEN [res |-> Err("InvalidPacket"), pkt |-> P] ELSE
    LET sp == DecodeFromBytes(P.path) IN
    IF ~sp.ok THEN [res |-> Err("InvalidPacket"), pkt |-> P]
    ELSE Forward(mf, P, sp, I, t)

(***************************************************************************)
(* The forwarder's state machine: one action per Process call.             *)
(***************************************************************************)
TrustIdle ==
    /\ trcs = <<>> /\ chains = <<>>
    /\ preTrcs = <<>> /\ preChains = <<>>
    /\ call = [op |-> "none"] /\ ret = [op |-> "none"]

\* a TRC state machine and a certificate bundle as constructed, no call made
PkiIdle ==
    /\ machineISD = 1 /\ current = <<>> /\ pending = <<>>
    /\ certs = <<>> /\ privKeys = <<>> /\ nCreate = 0
    /\ prePki = [current |-> <<>>, pending |-> <<>>, certs |-> <<>>, keys |-> <<>>]
    /\ pkiCall = [op |-> "none"] /\ pkiRet = [op |-> "none"]

\* the control plane is as constructed and serves no neighbor
CpIdle ==
    /\ cpPc = "new" /\ cancelled = FALSE /\ tickPending = FALSE
    /\ todo = {} /\ inFlight = <<>> /\ table = <<>> /\ localTrust = {}
    /\ reliable = {} /\ preTable = <<>> /\ cpEvent = [op |-> "none"]
    /\ ok200 = {} /\ roundsDone = 0 /\ roundsAfterCancel = 0
    /\ ticksAfterCancel = 0 /\ pendingAtCancel = FALSE
    /\ probes = <<>>

\* no concurrent call is under way
ConcIdle ==
    /\ poolOnce = "new" /\ procPool = {} /\ procs = <<>> /\ procCalls = <<>>
    /\ directPathsMx = <<>> /\ lockCalls = <<>> /\ completedWrite = <<>>
    /\ dbMx = "" /\ txs = <<>>

RouterIdle ==
    /\ pc = "idle"
    /\ pre = Garbage /\ pkt = Garbage
    /\ ingressID = 0 /\ now = 0 /\ res = NoResult

InitRouter ==
    /\ macFactory \in {"nil", "cmac"}
    /\ RouterIdle
    /\ TrustIdle
    /\ CpIdle /\ ConcIdle
    /\ PkiIdle

\* one call Process(P, I) on a buffer holding P; t is what time.Now()
\* returns in it
DoProcess ==
    /\ pc = "idle"
    /\ \E P \in Packets, I \in IfIDs, t \in Times :
        LET out == Process(macFactory, P, I, t) IN
        /\ pre' = P
        /\ ingressID' = I
        /\ now' = t
        /\ res' = out.res
        /\ pkt' = out.pkt
    /\ pc' = "done"
    /\ UNCHANGED <<macFactory, trustVars, pkiVars, cpVars, concVars>>

\* the caller is done with the buffer
Release ==
    /\ pc = "done"
    /\ pc' = "idle"
    /\ pre' = Garbage /\ pkt' = Garbage
    /\ ingressID' = 0 /\ now' = 0 /\ res' = NoResult
    /\ UNCHANGED <<macFactory, trustVars, pkiVars, cpVars, concVars>>

NextRouter == DoProcess \/ Release

SpecRouter == InitRouter /\ [][NextRouter]_vars

(***************************************************************************)
(*                     TRUST STORE: the bbolt database                     *)
(***************************************************************************)
(* Byte strings are sequences of numbers in 0..255; text is the sequence   *)
(* of its ASCII codes.                                                      *)

\* bytes.Compare(a, b) < 0
RECURSIVE BytesLess(_, _)
BytesLess(a, b) ==
    IF b = <<>> THEN FALSE
    ELSE IF a = <<>> THEN TRUE
    ELSE IF a[1] # b[1] THEN a[1] < b[1]
    ELSE BytesLess(Tail(a), Tail(b))

\* bytes.HasPrefix(k, p); a nil prefix is a prefix of every key
HasPrefix(k, p) == Len(p) <= Len(k) /\ SubSeq(k, 1, Len(p)) = p

\* the keys of a bucket in the order a cursor walks them
RECURSIVE SortedKeys(_)
SortedKeys(S) ==
    IF S = {} THEN <<>>
    ELSE LET least == CHOOSE k \in S : \A o \in S : ~BytesLess(o, k)
         IN  <<least>> \o SortedKeys(S \ {least})

\* for k := c.Seek(p); k != nil && bytes.HasPrefix(k, p); k = c.Next():
\* the keys the loop visits, in order
RECURSIVE WhilePrefix(_, _)
WhilePrefix(keys, p) ==
    IF keys = <<>> \/ ~HasPrefix(Head(keys), p) THEN <<>>
    ELSE <<Head(keys)>> \o WhilePrefix(Tail(keys), p)
RECURSIVE SeekFrom(_, _)
SeekFrom(keys, p) ==
    IF keys = <<>> \/ ~BytesLess(Head(keys), p) THEN keys
    ELSE SeekFrom(Tail(keys), p)
PrefixScan(bucket, p) == WhilePrefix(SeekFrom(SortedKeys(DOMAIN bucket), p), p)

\* strconv decimal text of n >= 0
RECURSIVE Decimal(_)
Decimal(n) ==
    IF n < 10 THEN <<48 + n>>
    ELSE Decimal(n \div 10) \o <<48 + (n % 10)>>

\* lower-case hexadecimal text of n >= 0 (fmt %x)
RECURSIVE Hex(_)
Hex(n) ==
    LET d == n % 16
        c == IF d < 10 THEN 48 + d ELSE 87 + d
    IN  IF n < 16 THEN <<c>> ELSE Hex(n \div 16) \o <<c>>

\* a bug: binary.LittleEndian in place of BigEndian
BigEndian8_LittleEndian(v) ==
    [i \in 1..8 |-> IF i > 4 THEN 0 ELSE (v \div (256 ^ (i - 1))) % 256]

\* binary.BigEndian.PutUint64 of a value below 2^31
BigEndian8(v) ==
    [i \in 1..8 |-> IF i <= 4 THEN 0 ELSE (v \div (256 ^ (8 - i))) % 256]

(***************************************************************************)
(* TRCs.                                                                   *)
(***************************************************************************)
\* scrypto.Version.IsLatest: the wildcard version is 0
IsLatest(v) == v = 0

ISDs == {1, 2}
\* Base and Serial numbers of stored TRCs: 1 and 256 differ in which of
\* their bytes is set
Versions == {1, 256}
TRCIDs == [ISD : ISDs, Base : Versions, Serial : Versions]
\* IDs asked for: stored ones, absent ones and the Latest wildcard
QueryIDs == [ISD : ISDs \cup {3}, Base : Versions \cup {0}, Serial : Versions \cup {0}]

\* TRC.Raw, the encoded payload: the ID and the rest of the payload
Payloads == [ID : TRCIDs, body : {"a", "b"}]
\* SignedTRC.Raw, the encoded signed TRC: the payload and its signatures
SignedRaws == [payload : Payloads, signatures : {"s1", "s2"}]

\* cppki.DecodeSignedTRC
DecodeSignedTRC(raw) ==
    [Raw |-> raw, TRC |-> [ID |-> raw.payload.ID, Raw |-> raw.payload]]

\* the signed TRCs that callers hold
SignedTRCs == {DecodeSignedTRC(r) : r \in SignedRaws}

\* cppki.SignedTRC{}
EmptySignedTRC ==
    LET none == [ID |-> [ISD |-> 0, Base |-> 0, Serial |-> 0], body |-> ""]
    IN  [Raw |-> [payload |-> none, signatures |-> ""],
         TRC |-> [ID |-> none.ID, Raw |-> none]]

\* the name of an ISD's bucket: id.ISD.String()
ISDString(isd) == Decimal(isd)

\* the 16-byte key Base || Serial
TRCKey(id) == BigEndian8(id.Base) \o BigEndian8(id.Serial)

\* the entries of a bucket of buckets: name -> (key -> value)
Entries(top) == UNION {{<<n, k>> : k \in DOMAIN top[n]} : n \in DOMAIN top}
NumStored == Cardinality(Entries(trcs)) + Cardinality(Entries(chains))

\* a bug: Put replaces the bucket's content instead of adding to it
PutIn_ReplacesBucket(top, name, key, value) ==
    [n \in DOMAIN top \cup {name} |->
        IF n = name THEN (key :> value) ELSE top[n]]

\* b.Put(key, value) in the bucket called name, created if missing
PutIn(top, name, key, value) ==
    LET bucket == IF name \in DOMAIN top THEN top[name] ELSE <<>>
    IN  [n \in DOMAIN top \cup {name} |->
            IF n = name THEN (key :> value) @@ bucket ELSE top[n]]

\* a bug: an existing key counts as "already there" without comparing
InsertTRCTx_NoCompare(top, trc) ==
    LET name == ISDString(trc.TRC.ID.ISD)
        key  == TRCKey(trc.TRC.ID)
    IN  IF name \in DOMAIN top /\ key \in DOMAIN top[name]
        THEN [inserted |-> FALSE, err |-> "", trcs |-> top]
        ELSE [inserted |-> TRUE, err |-> "",
              trcs |-> PutIn(top, name, key, trc.Raw)]

\* a bug: the new bytes written before the comparison, and kept although
\* the call fails
InsertTRCTx_WriteBeforeCompare(top, trc) ==
    LET name == ISDString(trc.TRC.ID.ISD)
        key  == TRCKey(trc.TRC.ID)
    IN  IF name \in DOMAIN top /\ key \in DOMAIN top[name]
        THEN LET existing == DecodeSignedTRC(top[name][key]) IN
             IF trc.TRC.Raw # existing.TRC.Raw
             THEN [inserted |-> FALSE, err |-> "ConflictingTRC",
                   trcs |-> PutIn(top, name, key, trc.Raw)]
             ELSE [inserted |-> FALSE, err |-> "", trcs |-> top]
        ELSE [inserted |-> TRUE, err |-> "",
              trcs |-> PutIn(top, name, key, trc.Raw)]

\* InsertTRC(trc) in one Update transaction: what it returns and the bucket
\* "trcs" after it.  An error rolls the transaction back.
InsertTRCTx(top, trc) ==
    LET name == ISDString(trc.TRC.ID.ISD)
        key  == TRCKey(trc.TRC.ID)
    IN  IF name \in DOMAIN top /\ key \in DOMAIN top[name]
        THEN LET existing == DecodeSignedTRC(top[name][key]) IN
             IF trc.TRC.Raw # existing.TRC.Raw
             THEN [inserted |-> FALSE, err |-> "ConflictingTRC", trcs |-> top]
             ELSE [inserted |-> FALSE, err |-> "", trcs |-> top]
        ELSE [inserted |-> TRUE, err |-> "",
              trcs |-> PutIn(top, name, key, trc.Raw)]

\* b.Cursor().Last(): the value under the greatest key, nil in an empty bucket
CursorLast(bucket) ==
    LET keys == SortedKeys(DOMAIN bucket)
    IN  IF keys = <<>> THEN <<>> ELSE <<bucket[keys[Len(keys)]]>>

\* a bug: no test that Base and Serial are Latest together
SignedTRCTx_NoSentinelCheck(top, id) ==
    LET name == ISDString(id.ISD) IN
    IF name \notin DOMAIN top
    THEN [trc |-> EmptySignedTRC, err |-> ""]
    ELSE LET b   == top[name]
             raw == IF IsLatest(id.Base) THEN CursorLast(b)
                    ELSE IF TRCKey(id) \in DOMAIN b
                         THEN <<b[TRCKey(id)]>> ELSE <<>>
         IN  IF raw = <<>>
             THEN [trc |-> EmptySignedTRC, err |-> ""]
             ELSE [trc |-> DecodeSignedTRC(raw[1]), err |-> ""]

\* SignedTRC(id) in one View transaction: the TRC and the error it returns
SignedTRCTx(top, id) ==
    IF IsLatest(id.Base) # IsLatest(id.Serial)
    THEN [trc |-> EmptySignedTRC, err |-> "UnsupportedQuery"]
    ELSE LET name == ISDString(id.ISD) IN
         IF name \notin DOMAIN top
         THEN [trc |-> EmptySignedTRC, err |-> ""]
         ELSE LET b   == top[name]
                  raw == IF IsLatest(id.Base) THEN CursorLast(b)
                         ELSE IF TRCKey(id) \in DOMAIN b
                              THEN <<b[TRCKey(id)]>> ELSE <<>>
              IN  IF raw = <<>>
                  THEN [trc |-> EmptySignedTRC, err |-> ""]
                  ELSE [trc |-> DecodeSignedTRC(raw[1]), err |-> ""]

(***************************************************************************)
(* Certificate chains.                                                     *)
(***************************************************************************)
\* addr.IA: the ISD and the AS number, the latter in its three 16-bit groups
MkIA(isd, hi, mid, lo) == [ISD |-> isd, AS |-> <<hi, mid, lo>>]
ZeroIA == MkIA(0, 0, 0, 0)
IA11  == MkIA(1, 65280, 0, 17)     \* 1-ff00:0:11
IA110 == MkIA(1, 65280, 0, 272)    \* 1-ff00:0:110
IA2   == MkIA(2, 65280, 0, 272)    \* 2-ff00:0:110

\* addr.AS.String(): decimal for a BGP AS number, else three hexadecimal
\* groups separated by ':'
ASString(as) ==
    IF as[1] = 0 THEN Decimal(as[2] * 65536 + as[3])
    ELSE Hex(as[1]) \o <<58>> \o Hex(as[2]) \o <<58>> \o Hex(as[3])

\* addr.IA.String(): "<ISD>-<AS>"
IAString(ia) == Decimal(ia.ISD) \o <<45>> \o ASString(ia.AS)

\* addr.IA.IsZero()
IsZeroIA(ia) == ia = ZeroIA

\* An x509 certificate: its DER bytes (a length byte and that many bytes),
\* the IA of its subject if it has one, SubjectKeyId, NotBefore, NotAfter.
\* Times are whole numbers; 0 is the zero time.Time.
MkCert(raw, hasIA, ia, skid, nb, na) ==
    [Raw |-> raw, HasIA |-> hasIA, IA |-> ia, SubjectKeyId |-> skid,
     NotBefore |-> nb, NotAfter |-> na]
ASCert1 == MkCert(<<2, 1, 1>>, TRUE, IA11, <<7, 1>>, 2, 4)
ASCert2 == MkCert(<<2, 1, 2>>, TRUE, IA110, <<7, 1>>, 2, 4)
ASCert3 == MkCert(<<2, 1, 3>>, TRUE, IA110, <<7, 2>>, 3, 5)
ASCertNoIA == MkCert(<<2, 1, 4>>, FALSE, ZeroIA, <<9>>, 2, 4)
CACert1 == MkCert(<<2, 2, 1>>, TRUE, IA110, <<5>>, 1, 9)
CACert2 == MkCert(<<3, 2, 2, 0>>, TRUE, IA110, <<6>>, 1, 9)
ASCerts == {ASCert1, ASCert2, ASCert3, ASCertNoIA}
CACerts == {CACert1, CACert2}
Certs == ASCerts \cup CACerts

\* the chains handed to InsertChain: pairs, and chains of length 1 and 3
ChainInputs ==
    {<<a, c>> : a \in ASCerts, c \in CACerts} \cup
    {<<ASCert1>>, <<ASCert1, CACert1, CACert1>>}

\* x509.ParseCertificates: the certificates whose DER is concatenated in v
RECURSIVE ParseCertificates(_)
ParseCertificates(v) ==
    IF v = <<>> THEN <<>>
    ELSE LET n == v[1] + 1 IN
         <<CHOOSE c \in Certs : c.Raw = SubSeq(v, 1, n)>>
             \o ParseCertificates(SubSeq(v, n + 1, Len(v)))

\* a digest of a byte string, standing for SHA-256
RECURSIVE Digest(_, _)
Digest(v, acc) ==
    IF v = <<>> THEN acc
    ELSE Digest(Tail(v), (acc * 31 + Head(v) + 1) % 251)

\* chainID(chain): the SHA-256 of the DER of both certificates
chainID(chain) == <<Digest(chain[1].Raw \o chain[2].Raw, 7)>>

\* cppki.ExtractIA(chain[0].Subject) succeeds
ExtractIAOk(cert) == cert.HasIA

\* a bug: the chain hash left out of the key
ChainKey_SKIDOnly(chain) == chain[1].SubjectKeyId

\* the key and the value InsertChain stores
ChainKey(chain) == chain[1].SubjectKeyId \o chainID(chain)
ChainValue(chain) == chain[1].Raw \o chain[2].Raw

\* InsertChain(chain): what it returns and the bucket "chains" after it
InsertChainTx(top, chain) ==
    IF Len(chain) # 2
    THEN [inserted |-> FALSE, err |-> "InvalidChainLength", chains |-> top]
    ELSE IF ~ExtractIAOk(chain[1])
    THEN [inserted |-> FALSE, err |-> "InvalidASCert", chains |-> top]
    ELSE LET name == IAString(chain[1].IA)
             key  == ChainKey(chain)
         IN  IF name \in DOMAIN top /\ key \in DOMAIN top[name]
             THEN [inserted |-> FALSE, err |-> "", chains |-> top]
             ELSE [inserted |-> TRUE, err |-> "",
                   chains |-> PutIn(top, name, key, ChainValue(chain))]

\* the validity filter of Chains on the AS certificate of a chain
ValidityMatches(query, chain) ==
    /\ query.NotBefore = 0 \/ ~(chain[1].NotBefore > query.NotBefore)
    /\ query.NotAfter = 0 \/ ~(chain[1].NotAfter < query.NotAfter)

\* the IA buckets Chains walks: from Seek(ia) while the name has prefix ia,
\* ia being nil for the zero IA
ScannedBuckets(top, query) ==
    PrefixScan(top, IF IsZeroIA(query.IA) THEN <<>> ELSE IAString(query.IA))

\* the chains Chains appends while walking one IA bucket
RECURSIVE FilterChains(_, _, _)
FilterChains(bucket, keys, query) ==
    IF keys = <<>> THEN <<>>
    ELSE LET chain == ParseCertificates(bucket[Head(keys)])
             rest  == FilterChains(bucket, Tail(keys), query)
         IN  IF ValidityMatches(query, chain) THEN <<chain>> \o rest ELSE rest

RECURSIVE ChainsIn(_, _, _)
ChainsIn(top, names, query) ==
    IF names = <<>> THEN <<>>
    ELSE LET b == top[Head(names)] IN
         FilterChains(b, PrefixScan(b, query.SubjectKeyID), query)
             \o ChainsIn(top, Tail(names), query)

\* Chains(query) in one View transaction: the chains it returns
ChainsTx(top, query) == ChainsIn(top, ScannedBuckets(top, query), query)

\* the queries asked: any IA, key prefixes of several lengths (the last one
\* a SubjectKeyId followed by the first byte of a chain hash), any validity
QueryIAs == {ZeroIA, IA11, IA110, IA2}
QuerySKIDs ==
    {<<>>, <<7>>, <<7, 1>>, <<8>>,
     <<7, 1>> \o chainID(<<ASCert2, CACert1>>)}
QueryTimes == {0, 3, 5}
ChainQueries ==
    [IA : QueryIAs, SubjectKeyID : QuerySKIDs,
     NotBefore : QueryTimes, NotAfter : QueryTimes]

(***************************************************************************)
(* The trust store's state machine: one action per call.                   *)
(***************************************************************************)
\* no call is in progress
Idle == call.op = "none"

InitTrust ==
    /\ macFactory = "nil"
    /\ RouterIdle
    /\ TrustIdle
    /\ CpIdle /\ ConcIdle
    /\ PkiIdle

InsertTRC ==
    /\ Idle
    /\ \E x \in SignedTRCs :
        LET out == InsertTRCTx(trcs, x) IN
        /\ NumStored < MaxStored \/ ~out.inserted
        /\ trcs' = out.trcs
        /\ call' = [op |-> "InsertTRC", trc |-> x]
        /\ ret' = [inserted |-> out.inserted, err |-> out.err]
        /\ preTrcs' = trcs /\ preChains' = chains
        /\ UNCHANGED <<chains, routerVars, pkiVars, cpVars, concVars>>

SignedTRC ==
    /\ Idle
    /\ \E id \in QueryIDs :
        /\ call' = [op |-> "SignedTRC", id |-> id]
        /\ ret' = SignedTRCTx(trcs, id)
        /\ preTrcs' = trcs /\ preChains' = chains
        /\ UNCHANGED <<trcs, chains, routerVars, pkiVars, cpVars, concVars>>

InsertChain ==
    /\ Idle
    /\ \E chain \in ChainInputs :
        LET out == InsertChainTx(chains, chain) IN
        /\ NumStored < MaxStored \/ ~out.inserted
        /\ chains' = out.chains
        /\ call' = [op |-> "InsertChain", chain |-> chain]
        /\ ret' = [inserted |-> out.inserted, err |-> out.err]
        /\ preTrcs' = trcs /\ preChains' = chains
        /\ UNCHANGED <<trcs, routerVars, pkiVars, cpVars, concVars>>

Chains ==
    /\ Idle
    /\ \E query \in ChainQueries :
        /\ call' = [op |-> "Chains", query |-> query]
        /\ ret' = [chains |-> ChainsTx(chains, query), err |-> ""]
        /\ preTrcs' = trcs /\ preChains' = chains
        /\ UNCHANGED <<trcs, chains, routerVars, pkiVars, cpVars, concVars>>

\* the caller takes the result; the store is ready for the next call
Return ==
    /\ ~Idle
    /\ call' = [op |-> "none"] /\ ret' = [op |-> "none"]
    /\ preTrcs' = trcs /\ preChains' = chains
    /\ UNCHANGED <<trcs, chains, routerVars, pkiVars, cpVars, concVars>>

NextTrust == InsertTRC \/ SignedTRC \/ InsertChain \/ Chains \/ Return

SpecTrust == InitTrust /\ [][NextTrust]_vars

(***************************************************************************)
(*                    Claims about the forwarder (C1 - C6)                 *)
(***************************************************************************)
\* the last call got past header and path decoding and the index check
PreDecodable ==
    /\ pc = "done"
    /\ pre.decodes
    /\ SegLenOK(pre.path.SegLen)
    /\ pre.path.CurrINF < NumINF(pre.path.SegLen)
    /\ pre.path.CurrHF < NumHops(pre.path.SegLen)
PreInfo == pre.path.InfoFields[pre.path.CurrINF + 1]
PreHop == pre.path.HopFields[pre.path.CurrHF + 1]
\* the expiry instant, the expected ingress and the egress of the packet,
\* written out from the packet's fields
PreExpiry == PreInfo.Timestamp * 1000 + (PreHop.ExpTime + 1) * ExpUnit
PreIngress == IF PreInfo.ConsDir THEN PreHop.ConsIngress ELSE PreHop.ConsEgress
PreEgress == IF PreInfo.ConsDir THEN PreHop.ConsEgress ELSE PreHop.ConsIngress
\* the info field the MAC is verified over: the packet's, with the SegID
\* folded at an ingress router against construction direction
PreMacInfo ==
    IF ingressID # 0 /\ ~PreInfo.ConsDir
    THEN [PreInfo EXCEPT !.SegID = Xor(@, PreHop.Mac)]
    ELSE PreInfo
PreMacMatches == PreHop.Mac = MAC(PreMacInfo, PreHop)
PassedExpiryAndIngress ==
    /\ PreDecodable
    /\ now <= PreExpiry
    /\ ingressID # 0 => ingressID = PreIngress
\* every check of steps 3 - 6 passed (the MAC check as the router makes it)
PassedAllChecks ==
    /\ PassedExpiryAndIngress
    /\ macFactory # "nil" => PreMacMatches

\* C1: whenever Process returns an error, the buffer holds the bytes it held
\* before the call.
C1_ErrorLeavesPacketUnchanged ==
    (pc = "done" /\ IsError(res)) => pkt = pre

\* C2 as stated: for every router, whatever its MacFactory, a packet past
\* the expiry and ingress checks whose hop MAC does not match gets
\* MACInvalid, and never a NextHop.
C2_MacMismatchRejectedAnyFactory ==
    (PassedExpiryAndIngress /\ ~PreMacMatches) =>
        (res = Err("MACInvalid") /\ res.kind # "NextHop")

\* C2 amended: on a router with a MacFactory, a packet past the expiry and
\* ingress checks whose hop MAC does not match gets MACInvalid and never a
\* NextHop; on a router whose MacFactory is nil no MAC check is made and
\* MACInvalid is never returned.
C2_MacMismatchRejected ==
    /\ (PassedExpiryAndIngress /\ ~PreMacMatches /\ macFactory # "nil") =>
          (res = Err("MACInvalid") /\ res.kind # "NextHop")
    /\ (pc = "done" /\ macFactory = "nil") => res # Err("MACInvalid")

C2_Witness ==
    /\ PassedExpiryAndIngress /\ ~PreMacMatches /\ macFactory # "nil"
    /\ ingressID # 0 /\ ~PreInfo.ConsDir
    /\ res = Err("MACInvalid")

\* C3: when all checks pass, the egress E is non-zero and has a next hop,
\* and CurrHF + 1 < NumHops, Process returns ExternalNextHops[E] and the
\* packet's CurrHF is one more than before, for ingressID = 0 and # 0 alike.
C3_EgressAdvances ==
    (/\ PassedAllChecks
     /\ PreEgress # 0
     /\ PreEgress \in DOMAIN ExternalNextHops
     /\ pre.path.CurrHF + 1 < NumHops(pre.path.SegLen))
    => (/\ res = NextHop(ExternalNextHops[PreEgress])
        /\ pkt.path.CurrHF = pre.path.CurrHF + 1)

C3_Witness ==
    /\ PassedAllChecks /\ macFactory = "cmac"
    /\ ingressID = 1 /\ PreEgress = 2
    /\ pre.path.CurrHF = 0
    /\ res = NextHop(ExternalNextHops[2])
    /\ pkt.path.CurrHF = 1

\* the packet's destination host address is an IP address
PreDstIsIP == pre.DstAddrType = "T4Ip"
LocalNextHop == NextHop([ip |-> pre.RawDstAddr, port |-> 0])

C5_ExpiryFirst ==
    PreDecodable =>
        IF now > PreExpiry
        THEN res = Err("HopExpired") /\ pkt = pre
        ELSE res # Err("HopExpired")

C5_Witness ==
    /\ PreDecodable /\ now > PreExpiry
    /\ ingressID # 0 /\ ingressID # PreIngress
    /\ ~PreMacMatches /\ macFactory = "cmac"
    /\ PreEgress \notin DOMAIN ExternalNextHops
    /\ res = Err("HopExpired")

\* C6: the expected ingress is ConsIngress in construction direction and
\* ConsEgress against it; a non-expired packet received on another non-zero
\* interface gets IngressMismatch, and ingressID = 0 never does.
C6_IngressCheck ==
    /\ (PreDecodable /\ now <= PreExpiry
          /\ ingressID # 0 /\ ingressID # PreIngress) =>
          res = Err("IngressMismatch")
    /\ (pc = "done" /\ ingressID = 0) => res # Err("IngressMismatch")

C6_Witness ==
    /\ PreDecodable /\ now <= PreExpiry
    /\ ~PreInfo.ConsDir
    /\ ingressID # 0 /\ ingressID = PreHop.ConsIngress
    /\ ingressID # PreHop.ConsEgress
    /\ res = Err("IngressMismatch")

(***************************************************************************)
(*                 Claims about the trust store (C7 - C10)                 *)
(***************************************************************************)
\* the signed bytes stored under a TRC ID, as a set of at most one element
StoredRaw(top, id) ==
    {top[e[1]][e[2]] : e \in {f \in Entries(top) :
                                f = <<ISDString(id.ISD), TRCKey(id)>>}}
\* every signed TRC in the store, decoded
StoredTRCs(top) == {DecodeSignedTRC(top[e[1]][e[2]]) : e \in Entries(top)}

\* C7 as stated: InsertTRC(x) returns (true, nil) when no TRC with x's ID is
\* stored, (false, nil) when x itself is stored, and (false, ConflictingTRC)
\* when the stored signed TRC with that ID is not byte-identical to x.
C7_InsertTRCSignedBytes ==
    call.op = "InsertTRC" =>
        LET x == call.trc
            old == StoredRaw(preTrcs, x.TRC.ID)
        IN  /\ old = {} => ret = [inserted |-> TRUE, err |-> ""]
            /\ old = {x.Raw} => ret = [inserted |-> FALSE, err |-> ""]
            /\ (old # {} /\ old # {x.Raw}) =>
                  ret = [inserted |-> FALSE, err |-> "ConflictingTRC"]

\* C7 amended: InsertTRC(x) returns (true, nil) when no TRC with x's ID is
\* stored, (false, nil) when x itself is stored or the stored TRC has the
\* same payload bytes (TRC.Raw) as x under other signatures, and
\* (false, ConflictingTRC) when the stored payload bytes differ from x's.
C7_InsertTRCIdempotent ==
    call.op = "InsertTRC" =>
        LET x == call.trc
            old == StoredRaw(preTrcs, x.TRC.ID)
        IN  /\ old = {} => ret = [inserted |-> TRUE, err |-> ""]
            /\ old = {x.Raw} => ret = [inserted |-> FALSE, err |-> ""]
            /\ \A v \in old :
                  IF v.payload # x.Raw.payload
                  THEN ret = [inserted |-> FALSE, err |-> "ConflictingTRC"]
                  ELSE ret = [inserted |-> FALSE, err |-> ""]

C7_Witness ==
    /\ call.op = "InsertTRC"
    /\ \E v \in StoredRaw(preTrcs, call.trc.TRC.ID) :
          v.payload # call.trc.Raw.payload
    /\ ret = [inserted |-> FALSE, err |-> "ConflictingTRC"]

\* C8: a trust-store write that returns an error leaves the store as it
\* was: after a conflicting InsertTRC, SignedTRC of that ID returns the TRC
\* stored before and not the conflicting one; InsertChain with a chain of
\* length other than 2 returns (false, error) and every Chains query
\* returns what it returned before.
C8_FailedWriteChangesNothing ==
    /\ (call.op \in {"InsertTRC", "InsertChain"} /\ ret.err # "") =>
          (trcs = preTrcs /\ chains = preChains)
    /\ (call.op = "InsertTRC" /\ ret.err = "ConflictingTRC") =>
          LET id == call.trc.TRC.ID IN
          /\ SignedTRCTx(trcs, id) = SignedTRCTx(preTrcs, id)
          /\ SignedTRCTx(trcs, id).trc \in StoredTRCs(preTrcs)
          /\ SignedTRCTx(trcs, id).trc # call.trc
    /\ (call.op = "InsertChain" /\ Len(call.chain) # 2) =>
          /\ ret.inserted = FALSE /\ ret.err # ""
          /\ \A q \in ChainQueries :
                ChainsTx(chains, q) = ChainsTx(preChains, q)

C8_Witness ==
    /\ call.op = "InsertChain" /\ Len(call.chain) # 2
    /\ ret.err # ""
    /\ chains # <<>> /\ trcs # <<>>

\* (Base, Serial) of a is at most that of b, Base compared first
VersionLeq(a, b) ==
    \/ a.Base < b.Base
    \/ a.Base = b.Base /\ a.Serial <= b.Serial

\* C9: SignedTRC(ISD, Latest, Latest) returns the stored TRC of that ISD
\* with the greatest (Base, Serial), Base compared first, and never a TRC of
\* another ISD.
C9_LatestIsGreatest ==
    (call.op = "SignedTRC" /\ IsLatest(call.id.Base) /\ IsLatest(call.id.Serial)) =>
        LET mine == {t \in StoredTRCs(trcs) : t.TRC.ID.ISD = call.id.ISD}
        IN  /\ ret.err = ""
            /\ mine # {} =>
                  /\ ret.trc \in mine
                  /\ \A t \in mine : VersionLeq(t.TRC.ID, ret.trc.TRC.ID)
            /\ ret.trc # EmptySignedTRC => ret.trc.TRC.ID.ISD = call.id.ISD

C9_Witness ==
    /\ call.op = "SignedTRC" /\ IsLatest(call.id.Base) /\ IsLatest(call.id.Serial)
    /\ \E t \in StoredTRCs(trcs) :
          /\ t.TRC.ID.ISD = call.id.ISD
          /\ t.TRC.ID.Base = 1 /\ t.TRC.ID.Serial = 256
    /\ ret.trc.TRC.ID = [ISD |-> call.id.ISD, Base |-> 256, Serial |-> 1]

\* every chain in the store
StoredChains(top) == {ParseCertificates(top[e[1]][e[2]]) : e \in Entries(top)}

\* C10: Chains(q) returns a stored chain c if and only if (q.IA is zero or
\* c's IA is q.IA) and c's SubjectKeyId starts with q.SubjectKeyId and
\* c.NotBefore <= q.NotBefore <= q.NotAfter <= c.NotAfter, a zero bound of q
\* being unconstrained.
C10_ChainsFilter ==
    call.op = "Chains" =>
        LET q == call.query
            returned == {ret.chains[i] : i \in DOMAIN ret.chains}
            leq(a, b) == a = 0 \/ b = 0 \/ a <= b
        IN  \A c \in StoredChains(chains) :
                c \in returned <=>
                    /\ IsZeroIA(q.IA) \/ c[1].IA = q.IA
                    /\ HasPrefix(c[1].SubjectKeyId, q.SubjectKeyID)
                    /\ q.NotBefore = 0 \/ c[1].NotBefore <= q.NotBefore
                    /\ leq(q.NotBefore, q.NotAfter)
                    /\ q.NotAfter = 0 \/ q.NotAfter <= c[1].NotAfter

\* the chains a Chains call returned, as a set
Returned == {ret.chains[i] : i \in DOMAIN ret.chains}

\* C11: for a query with a non-zero IA every chain Chains returns has an AS
\* certificate whose IA is q.IA, also when the text of another stored IA
\* starts with the text of q.IA; with a zero IA the chains of all IAs are
\* scanned.
C11_ChainsExactIA ==
    call.op = "Chains" =>
        IF IsZeroIA(call.query.IA)
        THEN \A c \in StoredChains(chains) :
                (/\ HasPrefix(c[1].SubjectKeyId, call.query.SubjectKeyID)
                 /\ ValidityMatches(call.query, c)) => c \in Returned
        ELSE \A c \in Returned : c[1].IA = call.query.IA

\* c passes the filter of query q as the specification states it
Satisfies(c, q) ==
    /\ IsZeroIA(q.IA) \/ c[1].IA = q.IA
    /\ HasPrefix(c[1].SubjectKeyId, q.SubjectKeyID)
    /\ q.NotBefore = 0 \/ c[1].NotBefore <= q.NotBefore
    /\ q.NotAfter = 0 \/ q.NotAfter <= c[1].NotAfter

\* C12: InsertChain of a chain not stored returns (true, nil) and stores it;
\* of a stored chain returns (false, nil) and stores nothing; chains with
\* the same IA and SubjectKeyId but other certificate bytes are entries of
\* their own, and a Chains query by that SubjectKeyId whose validity a
\* stored chain satisfies returns it.
C12_InsertChainIdempotent ==
    /\ (call.op = "InsertChain" /\ ret.err = "") =>
          IF call.chain \in StoredChains(preChains)
          THEN ret.inserted = FALSE /\ chains = preChains
          ELSE /\ ret.inserted = TRUE
               /\ StoredChains(chains) = StoredChains(preChains) \cup {call.chain}
               /\ Cardinality(Entries(chains)) = Cardinality(Entries(preChains)) + 1
    /\ call.op = "Chains" =>
          \A c \in StoredChains(chains) :
             (/\ call.query.SubjectKeyID = c[1].SubjectKeyId
              /\ Satisfies(c, call.query)) => c \in Returned

C12_Witness ==
    /\ call.op = "Chains"
    /\ call.query.SubjectKeyID = <<7, 1>>
    /\ <<ASCert2, CACert1>> \in Returned
    /\ <<ASCert2, CACert2>> \in Returned

\* exactly one of Base and Serial of the ID asked for is Latest
OneLatest(id) == IsLatest(id.Base) # IsLatest(id.Serial)

\* C13: SignedTRC with exactly one of Base and Serial Latest fails with
\* UnsupportedQuery and returns the empty TRC, whatever is stored.
C13_OneLatestUnsupported ==
    (call.op = "SignedTRC" /\ OneLatest(call.id)) =>
        ret = [trc |-> EmptySignedTRC, err |-> "UnsupportedQuery"]

C13_Witness ==
    /\ call.op = "SignedTRC" /\ OneLatest(call.id)
    /\ ISDString(call.id.ISD) \in DOMAIN trcs
    /\ ret.err = "UnsupportedQuery"

\* C14: SignedTRC for an ISD without a stored TRC, or for an ID that is not
\* stored, returns the empty TRC and no error; Chains for an IA or a
\* SubjectKeyId without a stored chain returns no chain and no error.
C14_AbsenceIsNotAnError ==
    /\ (/\ call.op = "SignedTRC" /\ ~OneLatest(call.id)
        /\ \/ \A t \in StoredTRCs(trcs) : t.TRC.ID.ISD # call.id.ISD
           \/ /\ ~IsLatest(call.id.Base)
              /\ \A t \in StoredTRCs(trcs) : t.TRC.ID # call.id)
       => ret = [trc |-> EmptySignedTRC, err |-> ""]
    /\ (/\ call.op = "Chains"
        /\ \/ /\ ~IsZeroIA(call.query.IA)
              /\ \A c \in StoredChains(chains) : c[1].IA # call.query.IA
           \/ \A c \in StoredChains(chains) :
                 ~HasPrefix(c[1].SubjectKeyId, call.query.SubjectKeyID))
       => ret = [chains |-> <<>>, err |-> ""]

ValidateCert(cert) ==
    CASE cert.IsCA /\ cert.MaxPathLen = 1 /\ cert.KeyUsage = {"CertSign"}
           /\ "Root" \in cert.UnknownExtKeyUsage -> "Root"
      [] ~cert.IsCA /\ cert.KeyUsage = {} /\ cert.ExtKeyUsage = {"TimeStamping"}
           /\ cert.UnknownExtKeyUsage = {"Sensitive"} -> "Sensitive"
      [] ~cert.IsCA /\ cert.KeyUsage = {} /\ cert.ExtKeyUsage = {"TimeStamping"}
           /\ cert.UnknownExtKeyUsage = {"Regular"} -> "Regular"
      [] ~cert.IsCA /\ "DigitalSignature" \in cert.KeyUsage
           /\ cert.UnknownExtKeyUsage = {} -> "AS"
      [] OTHER -> "Invalid"

\* the elements of the sequence s
Range(s) == {s[i] : i \in DOMAIN s}

\* no element of the sequence s occurs twice
NoDuplicates(s) == \A i, j \in DOMAIN s : s[i] = s[j] => i = j

\* cppki.TRC.Validate on a TRC given with all its fields: the error, "" for
\* nil.  The format version, the ID, the validity period, the rules of a
\* base TRC, the quorum, the AS lists, the kind and the ISD of every
\* certificate, and the number of voters of each kind.
TRCValidate(trc) ==
    IF trc.Version # 1 THEN "UnsupportedVersion"
    ELSE IF \/ trc.ID.ISD = 0 \/ IsLatest(trc.ID.Base) \/ IsLatest(trc.ID.Serial)
            \/ trc.ID.Base > trc.ID.Serial
    THEN "InvalidID"
    ELSE IF trc.Validity.NotAfter <= trc.Validity.NotBefore
    THEN "InvalidValidityPeriod"
    ELSE IF trc.ID.Base = trc.ID.Serial /\ trc.GracePeriod # 0
    THEN "GracePeriodNonZero"
    ELSE IF trc.ID.Base = trc.ID.Serial /\ trc.Votes # <<>>
    THEN "VotesOnBaseTRC"
    ELSE IF trc.Quorum = 0 \/ trc.Quorum > 255
    THEN "InvalidQuorumSize"
    ELSE IF \/ ~NoDuplicates(trc.CoreASes) \/ <<0, 0, 0>> \in Range(trc.CoreASes)
            \/ ~NoDuplicates(trc.AuthoritativeASes)
            \/ <<0, 0, 0>> \in Range(trc.AuthoritativeASes)
    THEN "InvalidASSequence"
    ELSE IF \E c \in Range(trc.Certificates) :
                ValidateCert(c) \notin {"Root", "Sensitive", "Regular"}
    THEN "InvalidCertType"
    ELSE IF \E c \in Range(trc.Certificates) : c.IA.ISD # trc.ID.ISD
    THEN "CertForOtherISD"
    ELSE IF \/ Cardinality({i \in DOMAIN trc.Certificates :
                    ValidateCert(trc.Certificates[i]) = "Sensitive"}) < trc.Quorum
            \/ Cardinality({i \in DOMAIN trc.Certificates :
                    ValidateCert(trc.Certificates[i]) = "Regular"}) < trc.Quorum
    THEN "NotEnoughVoters"
    ELSE ""

\* the TRCs handed to Update: the ID, whether the rest of the structure
\* passes validation, and the description
TRCBases == {1, 2}
TRCSerials == {1, 2, 3}
TRCInputs ==
    [ID : [ISD : ISDs, Base : TRCBases, Serial : TRCSerials],
     StructureOK : BOOLEAN, Description : {"a", "b"}]

\* cppki.TRC.Validate: the ID is well formed (no wildcard, Base not above
\* Serial) and so is the rest of the structure, which a TRC either states
\* (StructureOK) or carries in its fields
Validate(trc) ==
    /\ IF "StructureOK" \in DOMAIN trc THEN trc.StructureOK
       ELSE TRCValidate(trc) = ""
    /\ trc.ID.ISD # 0 /\ ~IsLatest(trc.ID.Base) /\ ~IsLatest(trc.ID.Serial)
    /\ trc.ID.Base <= trc.ID.Serial

\* a bug: the first TRC is queued as pending instead of installed
UpdateTx_BaseToPending(i, cur, pend, trc) ==
    IF ~Validate(trc) THEN [err |-> "InvalidTRC", current |-> cur, pending |-> pend]
    ELSE IF trc.ID.ISD # i
    THEN [err |-> "ISDMismatch", current |-> cur, pending |-> pend]
    ELSE IF cur = <<>>
    THEN IF trc.ID.Serial # trc.ID.Base
         THEN [err |-> "UpdateUnsupported", current |-> cur, pending |-> pend]
         ELSE [err |-> "", current |-> cur, pending |-> Append(pend, trc)]
    ELSE IF trc.ID.Base # cur[1].ID.Base
    THEN [err |-> "BaseMismatch", current |-> cur, pending |-> pend]
    ELSE IF trc.ID.Serial <= cur[1].ID.Serial
    THEN [err |-> "SerialNotIncreasing", current |-> cur, pending |-> pend]
    ELSE [err |-> "UpdateUnsupported", current |-> cur, pending |-> pend]

\* a bug: the serial compared before the base, and the ISD before validation
UpdateTx_Reordered(i, cur, pend, trc) ==
    IF trc.ID.ISD # i
    THEN [err |-> "ISDMismatch", current |-> cur, pending |-> pend]
    ELSE IF ~Validate(trc)
    THEN [err |-> "InvalidTRC", current |-> cur, pending |-> pend]
    ELSE IF cur = <<>>
    THEN IF trc.ID.Serial # trc.ID.Base
         THEN [err |-> "UpdateUnsupported", current |-> cur, pending |-> pend]
         ELSE [err |-> "", current |-> <<trc>>, pending |-> pend]
    ELSE IF trc.ID.Serial <= cur[1].ID.Serial
    THEN [err |-> "SerialNotIncreasing", current |-> cur, pending |-> pend]
    ELSE IF trc.ID.Base # cur[1].ID.Base
    THEN [err |-> "BaseMismatch", current |-> cur, pending |-> pend]
    ELSE [err |-> "UpdateUnsupported", current |-> cur, pending |-> pend]

\* a bug: a TRC update is installed and then reported as unsupported
UpdateTx_InstallsUpdate(i, cur, pend, trc) ==
    IF ~Validate(trc) THEN [err |-> "InvalidTRC", current |-> cur, pending |-> pend]
    ELSE IF trc.ID.ISD # i
    THEN [err |-> "ISDMismatch", current |-> cur, pending |-> pend]
    ELSE IF cur = <<>>
    THEN IF trc.ID.Serial # trc.ID.Base
         THEN [err |-> "UpdateUnsupported", current |-> cur, pending |-> pend]
         ELSE [err |-> "", current |-> <<trc>>, pending |-> pend]
    ELSE IF trc.ID.Base # cur[1].ID.Base
    THEN [err |-> "BaseMismatch", current |-> cur, pending |-> pend]
    ELSE IF trc.ID.Serial <= cur[1].ID.Serial
    THEN [err |-> "SerialNotIncreasing", current |-> cur, pending |-> pend]
    ELSE [err |-> "UpdateUnsupported", current |-> <<trc>>, pending |-> pend]

\* a bug: a base TRC of another base number replaces the current one
UpdateTx_ReplacesBase(i, cur, pend, trc) ==
    IF ~Validate(trc) THEN [err |-> "InvalidTRC", current |-> cur, pending |-> pend]
    ELSE IF trc.ID.ISD # i
    THEN [err |-> "ISDMismatch", current |-> cur, pending |-> pend]
    ELSE IF cur = <<>> \/ trc.ID.Base # cur[1].ID.Base
    THEN IF trc.ID.Serial # trc.ID.Base
         THEN [err |-> "UpdateUnsupported", current |-> cur, pending |-> pend]
         ELSE [err |-> "", current |-> <<trc>>, pending |-> pend]
    ELSE IF trc.ID.Serial <= cur[1].ID.Serial
    THEN [err |-> "SerialNotIncreasing", current |-> cur, pending |-> pend]
    ELSE [err |-> "UpdateUnsupported", current |-> cur, pending |-> pend]

\* TRCs.Update(trc) on a machine for ISD i holding cur and pend: the error it
\* returns ("" for nil) and the fields afterwards
UpdateTx(i, cur, pend, trc) ==
    IF ~Validate(trc) THEN [err |-> "InvalidTRC", current |-> cur, pending |-> pend]
    ELSE IF trc.ID.ISD # i
    THEN [err |-> "ISDMismatch", current |-> cur, pending |-> pend]
    ELSE IF cur = <<>>
    THEN IF trc.ID.Serial # trc.ID.Base
         THEN [err |-> "UpdateUnsupported", current |-> cur, pending |-> pend]
         ELSE [err |-> "", current |-> <<trc>>, pending |-> pend]
    ELSE IF trc.ID.Base # cur[1].ID.Base
    THEN [err |-> "BaseMismatch", current |-> cur, pending |-> pend]
    ELSE IF trc.ID.Serial <= cur[1].ID.Serial
    THEN [err |-> "SerialNotIncreasing", current |-> cur, pending |-> pend]
    ELSE [err |-> "UpdateUnsupported", current |-> cur, pending |-> pend]

\* TRCs.Current(): the TRC and the error
CurrentTx(cur) ==
    IF cur = <<>> THEN [trc |-> <<>>, err |-> "NoTRC"]
    ELSE [trc |-> cur, err |-> ""]

\* the fields of the pki objects, as prePki records them
PkiFields ==
    [current |-> current, pending |-> pending, certs |-> certs, keys |-> privKeys]

\* no pki call is in progress
PkiCallIdle == pkiCall.op = "none"

\* NewTRCs(isd)
InitTRCs ==
    /\ macFactory = "nil"
    /\ RouterIdle
    /\ TrustIdle
    /\ CpIdle /\ ConcIdle
    /\ machineISD \in ISDs /\ current = <<>> /\ pending = <<>>
    /\ certs = <<>> /\ privKeys = <<>> /\ nCreate = 0
    /\ prePki = [current |-> <<>>, pending |-> <<>>, certs |-> <<>>, keys |-> <<>>]
    /\ pkiCall = [op |-> "none"] /\ pkiRet = [op |-> "none"]

Update ==
    /\ PkiCallIdle
    /\ \E trc \in TRCInputs :
        LET out == UpdateTx(machineISD, current, pending, trc) IN
        /\ current' = out.current
        /\ pending' = out.pending
        /\ pkiCall' = [op |-> "Update", trc |-> trc]
        /\ pkiRet' = [err |-> out.err]
    /\ prePki' = PkiFields
    /\ UNCHANGED <<machineISD, certs, privKeys, nCreate, routerVars, trustVars, cpVars, concVars>>

Current ==
    /\ PkiCallIdle
    /\ pkiCall' = [op |-> "Current"]
    /\ pkiRet' = CurrentTx(current)
    /\ prePki' = PkiFields
    /\ UNCHANGED <<machineISD, current, pending, certs, privKeys, nCreate,
                   routerVars, trustVars, cpVars, concVars>>

Pending ==
    /\ PkiCallIdle
    /\ pkiCall' = [op |-> "Pending"]
    /\ pkiRet' = [pending |-> pending]
    /\ prePki' = PkiFields
    /\ UNCHANGED <<machineISD, current, pending, certs, privKeys, nCreate,
                   routerVars, trustVars, cpVars, concVars>>

\* the caller takes the result of a pki call
PkiReturn ==
    /\ ~PkiCallIdle
    /\ pkiCall' = [op |-> "none"] /\ pkiRet' = [op |-> "none"]
    /\ prePki' = PkiFields
    /\ UNCHANGED <<machineISD, current, pending, certs, privKeys, nCreate,
                   routerVars, trustVars, cpVars, concVars>>

NextTRCs == Update \/ Current \/ Pending \/ PkiReturn

SpecTRCs == InitTRCs /\ [][NextTRCs]_vars

(***************************************************************************)
(*               Claims about the TRC state machine (C16 - C18)            *)
(***************************************************************************)
\* C16: on a machine for ISD i without a current TRC, Update(T) with a valid
\* T of ISD i and Serial = Base returns nil and installs T: Current() then
\* returns T and no error, and Pending() is still empty.
C16_BaseTRCInstalled ==
    (/\ pkiCall.op = "Update"
     /\ prePki.current = <<>>
     /\ Validate(pkiCall.trc)
     /\ pkiCall.trc.ID.ISD = machineISD
     /\ pkiCall.trc.ID.Serial = pkiCall.trc.ID.Base)
    => (/\ pkiRet.err = ""
        /\ CurrentTx(current) = [trc |-> <<pkiCall.trc>>, err |-> ""]
        /\ pending = <<>>)

C16_Witness ==
    /\ pkiCall.op = "Update" /\ prePki.current = <<>>
    /\ pkiCall.trc.ID = [ISD |-> 2, Base |-> 2, Serial |-> 2]
    /\ machineISD = 2
    /\ pkiRet.err = "" /\ current = <<pkiCall.trc>>

\* the outcome the specification's order of tests prescribes
ExpectedOutcome(i, cur, trc) ==
    IF ~Validate(trc) THEN "InvalidTRC"
    ELSE IF trc.ID.ISD # i THEN "ISDMismatch"
    ELSE IF cur = <<>>
         THEN (IF trc.ID.Serial # trc.ID.Base THEN "UpdateUnsupported" ELSE "")
    ELSE IF trc.ID.Base # cur[1].ID.Base THEN "BaseMismatch"
    ELSE IF trc.ID.Serial <= cur[1].ID.Serial THEN "SerialNotIncreasing"
    ELSE "UpdateUnsupported"

\* C17: Update(T) returns the first outcome that applies, in the order
\* InvalidTRC, ISDMismatch, then without a current TRC UpdateUnsupported
\* (Serial # Base) or success, and with one BaseMismatch,
\* SerialNotIncreasing (also for the current TRC itself), UpdateUnsupported.
C17_UpdateOutcomeOrder ==
    pkiCall.op = "Update" =>
        /\ pkiRet.err = ExpectedOutcome(machineISD, prePki.current, pkiCall.trc)
        /\ (prePki.current = <<pkiCall.trc>>) => pkiRet.err = "SerialNotIncreasing"

\* a TRC failing two tests at once gets the outcome of the earlier one
C17_Witness ==
    /\ pkiCall.op = "Update" /\ prePki.current # <<>>
    /\ Validate(pkiCall.trc) /\ pkiCall.trc.ID.ISD = machineISD
    /\ pkiCall.trc.ID.Base # prePki.current[1].ID.Base
    /\ pkiCall.trc.ID.Serial <= prePki.current[1].ID.Serial
    /\ pkiRet.err = "BaseMismatch"

\* C18: with current = T, Update(T') with the Base of T and a higher Serial
\* returns UpdateUnsupported and changes nothing; every Update that returns
\* an error leaves current and pending as they were.
C18_FailedUpdateChangesNothing ==
    /\ (/\ pkiCall.op = "Update" /\ prePki.current # <<>>
        /\ Validate(pkiCall.trc) /\ pkiCall.trc.ID.ISD = machineISD
        /\ pkiCall.trc.ID.Base = prePki.current[1].ID.Base
        /\ pkiCall.trc.ID.Serial > prePki.current[1].ID.Serial)
       => pkiRet.err = "UpdateUnsupported"
    /\ (pkiCall.op = "Update" /\ pkiRet.err # "")
       => (current = prePki.current /\ pending = prePki.pending)

C18_Witness ==
    /\ pkiCall.op = "Update" /\ prePki.current # <<>>
    /\ pkiCall.trc.ID.Base = prePki.current[1].ID.Base
    /\ pkiCall.trc.ID.Serial > prePki.current[1].ID.Serial
    /\ pkiRet.err = "UpdateUnsupported"
    /\ current = prePki.current

(***************************************************************************)
(*           PKI: the certificate bundle (pki/certificates.go)             *)
(***************************************************************************)
\* CertType, the keys of Certificates.certs and Certificates.keys
CertTypes == {"Root", "Sensitive", "Regular", "AS"}
\* ASType; "Invalid" stands for every value that is none of the three
ASTypes == {"Core", "Authoritative", "Normal", "Invalid"}
BundleIAs == {IA110, IA2}

\* The certificate x509.CreateCertificate makes from a template: the fields
\* of the template, the identity of the fresh key pair (PublicKey), the
\* fresh serial number, and the key that signed it (SignedBy).  A key pair
\* and a serial number are named by the Create call and the kind they were
\* drawn for.
\* generateRootCert
generateRootCert(ia, gen) ==
    [IA |-> ia, IsCA |-> TRUE, MaxPathLen |-> 1,
     KeyUsage |-> {"CertSign"}, ExtKeyUsage |-> {},
     UnknownExtKeyUsage |-> {"Root"},
     SerialNumber |-> <<gen, "Root">>, PublicKey |-> <<gen, "Root">>,
     SignedBy |-> <<gen, "Root">>]

\* generateVotingCert, votingOID being the Sensitive or the Regular OID
generateVotingCert(ia, votingOID, gen) ==
    [IA |-> ia, IsCA |-> FALSE, MaxPathLen |-> 0,
     KeyUsage |-> {}, ExtKeyUsage |-> {"TimeStamping"},
     UnknownExtKeyUsage |-> {votingOID},
     SerialNumber |-> <<gen, votingOID>>, PublicKey |-> <<gen, votingOID>>,
     SignedBy |-> <<gen, votingOID>>]

\* generateASCert: signed by issuerKey, by its own key if issuerKey is nil
generateASCert(ia, gen, issuerKey) ==
    [IA |-> ia, IsCA |-> FALSE, MaxPathLen |-> 0,
     KeyUsage |-> {"DigitalSignature", "KeyEncipherment"},
     ExtKeyUsage |-> {"ServerAuth", "ClientAuth"},
     UnknownExtKeyUsage |-> {},
     SerialNumber |-> <<gen, "AS">>, PublicKey |-> <<gen, "AS">>,
     SignedBy |-> IF issuerKey = <<>> THEN <<gen, "AS">> ELSE issuerKey[1]]

\* the bundle b = [certs, keys] with the certificate and its key stored
\* under certType
Store(b, certType, cert) ==
    [certs |-> (certType :> cert) @@ b.certs,
     keys  |-> (certType :> cert.PublicKey) @@ b.keys]

\* Certificates.generateCert for Root, Sensitive and Regular
generateCert(b, ia, certType, gen) ==
    IF certType = "Root" THEN Store(b, "Root", generateRootCert(ia, gen))
    ELSE Store(b, certType, generateVotingCert(ia, certType, gen))

\* Certificates.generateASCert: signed by the Root key of the bundle
generateASCertSigned(b, ia, gen) ==
    Store(b, "AS", generateASCert(ia, gen, <<b.keys["Root"]>>))

\* Certificates.generateASCertSelfSigned
generateASCertSelfSigned(b, ia, gen) ==
    Store(b, "AS", generateASCert(ia, gen, <<>>))

\* a bug: the Authoritative case falls through the Sensitive certificate
CreateTx_AuthoritativeSensitive(b, ia, asType, gen) ==
    CASE asType = "Core" ->
           LET b1 == generateCert(b, ia, "Root", gen)
               b2 == generateCert(b1, ia, "Sensitive", gen)
               b3 == generateCert(b2, ia, "Regular", gen)
               b4 == generateASCertSigned(b3, ia, gen)
           IN  [err |-> "", certs |-> b4.certs, keys |-> b4.keys]
      [] asType = "Authoritative" ->
           LET b1 == generateCert(b, ia, "Sensitive", gen)
               b2 == generateCert(b1, ia, "Regular", gen)
               b3 == generateASCertSelfSigned(b2, ia, gen)
           IN  [err |-> "", certs |-> b3.certs, keys |-> b3.keys]
      [] asType = "Normal" ->
           LET b1 == generateASCertSelfSigned(b, ia, gen)
           IN  [err |-> "", certs |-> b1.certs, keys |-> b1.keys]
      [] OTHER -> [err |-> "InvalidASType", certs |-> b.certs, keys |-> b.keys]

\* Certificates.Create(ia, asType, validity) as call number gen on the
\* bundle b: the error and the two maps afterwards.  Key and serial
\* generation is taken to succeed.
CreateTx(b, ia, asType, gen) ==
    CASE asType = "Core" ->
           LET b1 == generateCert(b, ia, "Root", gen)
               b2 == generateCert(b1, ia, "Sensitive", gen)
               b3 == generateCert(b2, ia, "Regular", gen)
               b4 == generateASCertSigned(b3, ia, gen)
           IN  [err |-> "", certs |-> b4.certs, keys |-> b4.keys]
      [] asType = "Authoritative" ->
           LET b1 == generateCert(b, ia, "Regular", gen)
               b2 == generateASCertSelfSigned(b1, ia, gen)
           IN  [err |-> "", certs |-> b2.certs, keys |-> b2.keys]
      [] asType = "Normal" ->
           LET b1 == generateASCertSelfSigned(b, ia, gen)
           IN  [err |-> "", certs |-> b1.certs, keys |-> b1.keys]
      [] OTHER -> [err |-> "InvalidASType", certs |-> b.certs, keys |-> b.keys]

\* NewCertificates()
InitCerts ==
    /\ macFactory = "nil"
    /\ RouterIdle
    /\ TrustIdle
    /\ CpIdle /\ ConcIdle
    /\ PkiIdle

Create ==
    /\ PkiCallIdle
    /\ nCreate < MaxCreates
    /\ \E ia \in BundleIAs, asType \in ASTypes :
        LET out == CreateTx([certs |-> certs, keys |-> privKeys],
                            ia, asType, nCreate + 1) IN
        /\ certs' = out.certs
        /\ privKeys' = out.keys
        /\ pkiCall' = [op |-> "Create", ia |-> ia, asType |-> asType]
        /\ pkiRet' = [err |-> out.err]
    /\ nCreate' = nCreate + 1
    /\ prePki' = PkiFields
    /\ UNCHANGED <<machineISD, current, pending, routerVars, trustVars, cpVars, concVars>>

\* Certificates.HasCertificate(t)
HasCertificate ==
    /\ PkiCallIdle
    /\ \E t \in CertTypes :
        /\ pkiCall' = [op |-> "HasCertificate", t |-> t]
        /\ pkiRet' = [ok |-> t \in DOMAIN certs]
    /\ prePki' = PkiFields
    /\ UNCHANGED <<machineISD, current, pending, certs, privKeys, nCreate,
                   routerVars, trustVars, cpVars, concVars>>

\* the zero value cppki.TRC{}
EmptyTRC ==
    [Version |-> 0, ID |-> [ISD |-> 0, Base |-> 0, Serial |-> 0],
     Validity |-> [NotBefore |-> 0, NotAfter |-> 0],
     GracePeriod |-> 0, NoTrustReset |-> FALSE, Votes |-> <<>>, Quorum |-> 0,
     CoreASes |-> <<>>, AuthoritativeASes |-> <<>>, Description |-> "",
     Certificates |-> <<>>, Raw |-> <<>>]

\* the AS numbers of the TRCs
AS110 == <<65280, 0, 272>>
AS111 == <<65280, 0, 273>>
TRCASes == {AS110, AS111}

\* addr.ParseAS on the text of an AS number
ParseAS(str) == CHOOSE as \in TRCASes : ASString(as) = str

\* Times are counted in half seconds.  time.Time.Truncate(time.Second)
Truncate(t) == t - (t % 2)

\* cppki.TRC.Encode: the TRC is validated, then its payload is written: the
\* format version less one, the times in whole seconds, the AS numbers as
\* text, the certificates by their DER bytes (which a certificate of the
\* model stands for)
Encode(trc) ==
    IF TRCValidate(trc) # "" THEN [raw |-> <<>>, err |-> TRCValidate(trc)]
    ELSE [raw |-> <<[Version |-> trc.Version - 1, ID |-> trc.ID,
                    Validity |-> [NotBefore |-> trc.Validity.NotBefore \div 2,
                                  NotAfter |-> trc.Validity.NotAfter \div 2],
                    GracePeriod |-> trc.GracePeriod \div 2,
                    NoTrustReset |-> trc.NoTrustReset,
                    Votes |-> trc.Votes, Quorum |-> trc.Quorum,
                    CoreASes |-> [i \in DOMAIN trc.CoreASes |->
                                     ASString(trc.CoreASes[i])],
                    AuthoritativeASes |-> [i \in DOMAIN trc.AuthoritativeASes |->
                                     ASString(trc.AuthoritativeASes[i])],
                    Description |-> trc.Description,
                    Certificates |-> trc.Certificates]>>,
          err |-> ""]

\* x509.Certificate.Equal: the DER bytes are the same
CertEqual(c1, c2) == c1 = c2

\* a bug: a certificate is appended without looking for it in the list
JoinStep_NoDuplicateCheck(b, list, t) ==
    IF t \notin DOMAIN b.certs THEN list
    ELSE Append(list, b.certs[t])

\* one round of the loop of Join: the certificate of kind t appended to
\* list unless the bundle lacks it or the list holds it
JoinStep(b, list, t) ==
    IF t \notin DOMAIN b.certs THEN list
    ELSE IF \E i \in DOMAIN list : CertEqual(list[i], b.certs[t]) THEN list
    ELSE Append(list, b.certs[t])

\* Certificates.Join(trc) on the bundle b: the TRC and the error
JoinTx(b, trc) ==
    IF DOMAIN b.certs = {} THEN [trc |-> EmptyTRC, err |-> "NoVotingCertificate"]
    ELSE LET l1 == JoinStep(b, trc.Certificates, "Root")
             l2 == JoinStep(b, l1, "Sensitive")
             l3 == JoinStep(b, l2, "Regular")
             joined == [trc EXCEPT !.Certificates = l3]
             enc == Encode(joined)
         IN  IF enc.err # "" THEN [trc |-> EmptyTRC, err |-> "EncodeFailed"]
             ELSE [trc |-> [joined EXCEPT !.Raw = enc.raw], err |-> ""]

\* a root certificate of another bundle of ISD 1
ForeignRoot == generateRootCert(IA110, 0)

\* a bug: the validity period is used as it was given
TRCTemplate_NoTruncation(i, version, baseVersion, description, validity, coreASes, authASes) ==
    [Version |-> 1,
     ID |-> [ISD |-> i, Base |-> baseVersion, Serial |-> version],
     Validity |-> validity,
     GracePeriod |-> 0, NoTrustReset |-> FALSE, Votes |-> <<>>, Quorum |-> 1,
     CoreASes |-> coreASes, AuthoritativeASes |-> authASes,
     Description |-> description, Certificates |-> <<>>, Raw |-> <<>>]

\* the TRC GenerateBaseTRC hands to Join, before it has certificates
TRCTemplate(i, version, baseVersion, description, validity, coreASes, authASes) ==
    [Version |-> 1,
     ID |-> [ISD |-> i, Base |-> baseVersion, Serial |-> version],
     Validity |-> [NotBefore |-> Truncate(validity.NotBefore),
                   NotAfter |-> Truncate(validity.NotAfter)],
     GracePeriod |-> 0, NoTrustReset |-> FALSE, Votes |-> <<>>, Quorum |-> 1,
     CoreASes |-> coreASes, AuthoritativeASes |-> authASes,
     Description |-> description, Certificates |-> <<>>, Raw |-> <<>>]

\* the lists of certificates of the TRCs handed to Join: at most two of the
\* certificates of the bundle and of the foreign root
JoinLists ==
    LET cands == Range(certs) \cup {ForeignRoot}
    IN  {<<>>} \cup {<<c>> : c \in cands} \cup {<<c, d>> : c \in cands, d \in cands}

Join ==
    /\ PkiCallIdle
    /\ \E list \in JoinLists :
        LET trc == [TRCTemplate(1, 1, 1, "a", [NotBefore |-> 2, NotAfter |-> 6],
                                <<AS110>>, <<AS110>>)
                      EXCEPT !.Certificates = list]
            out == JoinTx([certs |-> certs, keys |-> privKeys], trc) IN
        /\ pkiCall' = [op |-> "Join", trc |-> trc]
        /\ pkiRet' = out
    /\ prePki' = PkiFields
    /\ UNCHANGED <<machineISD, current, pending, certs, privKeys, nCreate,
                   routerVars, trustVars, cpVars, concVars>>

NextCerts == Create \/ HasCertificate \/ Join \/ PkiReturn

SpecCerts == InitCerts /\ [][NextCerts]_vars

(***************************************************************************)
(*      PKI: generation of a TRC (pki/trcs.go, with and without bundle)    *)
(***************************************************************************)
\* cppki.DecodeTRC: the TRC read from a payload
Decode(raw) ==
    LET a == raw[1] IN
    [Version |-> a.Version + 1, ID |-> a.ID,
     Validity |-> [NotBefore |-> a.Validity.NotBefore * 2,
                   NotAfter |-> a.Validity.NotAfter * 2],
     GracePeriod |-> a.GracePeriod * 2, NoTrustReset |-> a.NoTrustReset,
     Votes |-> a.Votes, Quorum |-> a.Quorum,
     CoreASes |-> [i \in DOMAIN a.CoreASes |-> ParseAS(a.CoreASes[i])],
     AuthoritativeASes |-> [i \in DOMAIN a.AuthoritativeASes |->
                               ParseAS(a.AuthoritativeASes[i])],
     Description |-> a.Description, Certificates |-> a.Certificates,
     Raw |-> raw]

\* not the code: a request for a TRC that is not a base TRC is refused
GenerateBaseTRCTx_RejectsNonBase(b, i, version, baseVersion, description, validity, coreASes, authASes) ==
    LET j == JoinTx(b, TRCTemplate(i, version, baseVersion, description,
                                   validity, coreASes, authASes))
    IN  IF version # baseVersion THEN [trc |-> <<>>, err |-> "NotBase"]
        ELSE IF j.err # "" THEN [trc |-> <<>>, err |-> "JoinFailed"]
        ELSE IF TRCValidate(j.trc) # "" THEN [trc |-> <<>>, err |-> "ValidationFailed"]
        ELSE [trc |-> <<j.trc>>, err |-> ""]

\* GenerateBaseTRC(isd, version, baseVersion, description, validity,
\* coreASes, authASes, certs) with the bundle b: the TRC (none is <<>>) and
\* the error.  The test of version against baseVersion has an empty body.
GenerateBaseTRCTx(b, i, version, baseVersion, description, validity, coreASes, authASes) ==
    LET j == JoinTx(b, TRCTemplate(i, version, baseVersion, description,
                                   validity, coreASes, authASes))
    IN  IF j.err # "" THEN [trc |-> <<>>, err |-> "JoinFailed"]
        ELSE IF TRCValidate(j.trc) # "" THEN [trc |-> <<>>, err |-> "ValidationFailed"]
        ELSE [trc |-> <<j.trc>>, err |-> ""]

\* GenerateBaseTRC(isd, version, baseVersion, description, validity,
\* coreASes, authASes) of pki/trcs.go, which makes the three certificates
\* itself, for the first core AS, and writes the payload itself: the TRC
\* and the error.  The key pairs of the call are named 0.
GenerateBaseTRCStandaloneTx(i, version, baseVersion, description, validity, coreASes, authASes) ==
    LET trunc == [NotBefore |-> Truncate(validity.NotBefore),
                  NotAfter |-> Truncate(validity.NotAfter)]
        rootIA == [ISD |-> i, AS |-> coreASes[1]]
        allCerts == <<generateRootCert(rootIA, 0),
                      generateVotingCert(rootIA, "Sensitive", 0),
                      generateVotingCert(rootIA, "Regular", 0)>>
        a == [Version |-> 0,
              ID |-> [ISD |-> i, Base |-> baseVersion, Serial |-> version],
              Validity |-> [NotBefore |-> trunc.NotBefore \div 2,
                            NotAfter |-> trunc.NotAfter \div 2],
              GracePeriod |-> 0, NoTrustReset |-> FALSE,
              Votes |-> IF version = baseVersion THEN <<>> ELSE <<0>>,
              Quorum |-> 1,
              CoreASes |-> <<ASString(coreASes[1])>>,
              AuthoritativeASes |-> [k \in DOMAIN authASes |-> ASString(authASes[k])],
              Description |-> description, Certificates |-> allCerts]
        trc == [Version |-> 1,
                ID |-> [ISD |-> i, Base |-> baseVersion, Serial |-> version],
                Validity |-> trunc,
                GracePeriod |-> 0, NoTrustReset |-> FALSE, Votes |-> <<>>,
                Quorum |-> 1, CoreASes |-> coreASes,
                AuthoritativeASes |-> authASes, Description |-> description,
                Certificates |-> allCerts, Raw |-> <<a>>]
    IN  IF TRCValidate(trc) # "" THEN [trc |-> <<>>, err |-> "ValidationFailed"]
        ELSE [trc |-> <<trc>>, err |-> ""]

\* TRCs.RootCertificates(): the certificates and the error
RootCertificatesTx(cur) ==
    IF cur = <<>> THEN [certs |-> <<>>, err |-> "NoTRC"]
    ELSE LET IsRoot(c) == ValidateCert(c) = "Root"
         IN  [certs |-> SelectSeq(cur[1].Certificates, IsRoot), err |-> ""]

\* a bug: the Regular certificates left out of the voting certificates
VotingCertificatesTx_SensitiveOnly(cur) ==
    IF cur = <<>> THEN [certs |-> <<>>, err |-> "NoTRC"]
    ELSE LET IsVoter(c) == ValidateCert(c) = "Sensitive"
         IN  [certs |-> SelectSeq(cur[1].Certificates, IsVoter), err |-> ""]

\* TRCs.VotingCertificates(): the certificates and the error
VotingCertificatesTx(cur) ==
    IF cur = <<>> THEN [certs |-> <<>>, err |-> "NoTRC"]
    ELSE LET IsVoter(c) == ValidateCert(c) \in {"Sensitive", "Regular"}
         IN  [certs |-> SelectSeq(cur[1].Certificates, IsVoter), err |-> ""]

\* TRCs.SensitiveCertificates(): the certificates and the error
SensitiveCertificatesTx(cur) ==
    IF cur = <<>> THEN [certs |-> <<>>, err |-> "NoTRC"]
    ELSE LET IsSensitive(c) == ValidateCert(c) = "Sensitive"
         IN  [certs |-> SelectSeq(cur[1].Certificates, IsSensitive), err |-> ""]

\* TRCs.RegularCertificates(): the certificates and the error
RegularCertificatesTx(cur) ==
    IF cur = <<>> THEN [certs |-> <<>>, err |-> "NoTRC"]
    ELSE LET IsRegular(c) == ValidateCert(c) = "Regular"
         IN  [certs |-> SelectSeq(cur[1].Certificates, IsRegular), err |-> ""]

\* the arguments of a call of GenerateBaseTRC
GenVersions == {1, 2}
GenValidities ==
    {[NotBefore |-> 3, NotAfter |-> 7], [NotBefore |-> 2, NotAfter |-> 3]}
GenCoreASes == {<<AS110>>, <<AS110, AS111>>}
GenAuthASes == {<<>>, <<AS110>>}

GenerateBaseTRC ==
    /\ PkiCallIdle
    /\ \E i \in ISDs, version \in GenVersions, baseVersion \in GenVersions,
          validity \in GenValidities, coreASes \in GenCoreASes,
          authASes \in GenAuthASes :
        /\ pkiCall' = [op |-> "GenerateBaseTRC", isd |-> i, version |-> version,
                       baseVersion |-> baseVersion, validity |-> validity,
                       coreASes |-> coreASes, authASes |-> authASes]
        /\ pkiRet' = GenerateBaseTRCTx([certs |-> certs, keys |-> privKeys],
                          i, version, baseVersion, "a", validity, coreASes, authASes)
    /\ prePki' = PkiFields
    /\ UNCHANGED <<machineISD, current, pending, certs, privKeys, nCreate,
                   routerVars, trustVars, cpVars, concVars>>

GenerateBaseTRCStandalone ==
    /\ PkiCallIdle
    /\ \E i \in ISDs, version \in GenVersions, baseVersion \in GenVersions,
          validity \in GenValidities, coreASes \in GenCoreASes,
          authASes \in GenAuthASes :
        /\ pkiCall' = [op |-> "GenerateBaseTRCStandalone", isd |-> i,
                       version |-> version, baseVersion |-> baseVersion,
                       validity |-> validity,
                       coreASes |-> coreASes, authASes |-> authASes]
        /\ pkiRet' = GenerateBaseTRCStandaloneTx(i, version, baseVersion, "a",
                          validity, coreASes, authASes)
    /\ prePki' = PkiFields
    /\ UNCHANGED <<machineISD, current, pending, certs, privKeys, nCreate,
                   routerVars, trustVars, cpVars, concVars>>

\* the caller hands the TRC it was returned to TRCs.Update
UpdateGenerated ==
    /\ pkiCall.op \in {"GenerateBaseTRC", "GenerateBaseTRCStandalone"}
    /\ pkiRet.err = ""
    /\ LET out == UpdateTx(machineISD, current, pending, pkiRet.trc[1]) IN
        /\ current' = out.current
        /\ pending' = out.pending
        /\ pkiCall' = [op |-> "Update", trc |-> pkiRet.trc[1], from |-> pkiCall.op]
        /\ pkiRet' = [err |-> out.err]
    /\ prePki' = PkiFields
    /\ UNCHANGED <<machineISD, certs, privKeys, nCreate, routerVars, trustVars, cpVars, concVars>>

RootCertificates ==
    /\ PkiCallIdle
    /\ pkiCall' = [op |-> "RootCertificates"]
    /\ pkiRet' = RootCertificatesTx(current)
    /\ prePki' = PkiFields
    /\ UNCHANGED <<machineISD, current, pending, certs, privKeys, nCreate,
                   routerVars, trustVars, cpVars, concVars>>

VotingCertificates ==
    /\ PkiCallIdle
    /\ pkiCall' = [op |-> "VotingCertificates"]
    /\ pkiRet' = VotingCertificatesTx(current)
    /\ prePki' = PkiFields
    /\ UNCHANGED <<machineISD, current, pending, certs, privKeys, nCreate,
                   routerVars, trustVars, cpVars, concVars>>

SensitiveCertificates ==
    /\ PkiCallIdle
    /\ pkiCall' = [op |-> "SensitiveCertificates"]
    /\ pkiRet' = SensitiveCertificatesTx(current)
    /\ prePki' = PkiFields
    /\ UNCHANGED <<machineISD, current, pending, certs, privKeys, nCreate,
                   routerVars, trustVars, cpVars, concVars>>

RegularCertificates ==
    /\ PkiCallIdle
    /\ pkiCall' = [op |-> "RegularCertificates"]
    /\ pkiRet' = RegularCertificatesTx(current)
    /\ prePki' = PkiFields
    /\ UNCHANGED <<machineISD, current, pending, certs, privKeys, nCreate,
                   routerVars, trustVars, cpVars, concVars>>

NextGen ==
    \/ Create \/ GenerateBaseTRC \/ GenerateBaseTRCStandalone
    \/ UpdateGenerated \/ RootCertificates \/ VotingCertificates
    \/ SensitiveCertificates \/ RegularCertificates \/ PkiReturn

SpecGen == InitTRCs /\ [][NextGen]_vars

(***************************************************************************)
(*              Claims about the certificate bundle (C19 - C20)            *)
(***************************************************************************)
\* the classification of a certificate by its extensions
Classify(cert) ==
    CASE cert.IsCA /\ cert.MaxPathLen = 1 /\ cert.KeyUsage = {"CertSign"}
           /\ "Root" \in cert.UnknownExtKeyUsage -> "Root"
      [] ~cert.IsCA /\ cert.UnknownExtKeyUsage = {"Sensitive"} -> "Sensitive"
      [] ~cert.IsCA /\ cert.UnknownExtKeyUsage = {"Regular"} -> "Regular"
      [] cert.IsCA /\ cert.MaxPathLen = 0 -> "CA"
      [] ~cert.IsCA /\ cert.UnknownExtKeyUsage = {}
           /\ {"ServerAuth", "ClientAuth"} \subseteq cert.ExtKeyUsage -> "AS"
      [] OTHER -> "Invalid"

\* the kinds a role prescribes
RoleKinds(asType) ==
    CASE asType = "Core" -> {"Root", "Sensitive", "Regular", "AS"}
      [] asType = "Authoritative" -> {"Regular", "AS"}
      [] asType = "Normal" -> {"AS"}
      [] OTHER -> {}

\* C19: a successful Create on an empty bundle leaves exactly the kinds of
\* the role, Core: Root, Sensitive, Regular, AS; Authoritative: Regular, AS;
\* Normal: AS; and every certificate held is classified as its kind.
C19_CreateOnEmptyBundle ==
    (pkiCall.op = "Create" /\ pkiRet.err = "" /\ prePki.certs = <<>>) =>
        /\ DOMAIN certs = RoleKinds(pkiCall.asType)
        /\ DOMAIN privKeys = RoleKinds(pkiCall.asType)
        /\ \A k \in DOMAIN certs : Classify(certs[k]) = k

C19_Witness ==
    /\ pkiCall.op = "Create" /\ pkiRet.err = "" /\ prePki.certs = <<>>
    /\ pkiCall.asType = "Authoritative"
    /\ DOMAIN certs = {"Regular", "AS"}

\* C20: after every successful Create the bundle holds exactly the kinds
\* and keys of that call's role, and every certificate held was generated
\* by that call.
C20_CreateReplacesAll ==
    (pkiCall.op = "Create" /\ pkiRet.err = "") =>
        /\ DOMAIN certs = RoleKinds(pkiCall.asType)
        /\ DOMAIN privKeys = RoleKinds(pkiCall.asType)
        /\ \A k \in DOMAIN certs : certs[k].SerialNumber[1] = nCreate

\* C21: after every successful Create, the AS certificate of the bundle is
\* signed by the Root certificate of the bundle if the bundle holds one,
\* and self-signed only if it holds none.
C21_ASCertIssuedByRoot ==
    (pkiCall.op = "Create" /\ pkiRet.err = "") =>
        /\ "AS" \in DOMAIN certs
        /\ IF "Root" \in DOMAIN certs
           THEN certs["AS"].SignedBy = certs["Root"].PublicKey
           ELSE certs["AS"].SignedBy = certs["AS"].PublicKey

\* the certificates Join has to add to the list: those of the bundle of the
\* kinds Root, Sensitive, Regular, in this order, that the list lacks
Missing(list) ==
    LET kinds == <<"Root", "Sensitive", "Regular">>
        Lacking(k) == k \in DOMAIN certs /\ certs[k] \notin Range(list)
        ks == SelectSeq(kinds, Lacking)
    IN  [i \in DOMAIN ks |-> certs[ks[i]]]

\* C22 as stated: whatever Join returns, the list of the TRC returned is the
\* list given followed by the certificates the list lacks.
C22_JoinAppendsAlways ==
    pkiCall.op = "Join" =>
        pkiRet.trc.Certificates =
            pkiCall.trc.Certificates \o Missing(pkiCall.trc.Certificates)

\* C22: when Join returns no error (the bundle holds a certificate and the
\* TRC can be encoded), the list of the TRC returned is the list given
\* followed by the Root, Sensitive and Regular certificates of the bundle,
\* in this order, that the list lacks; the AS certificate is not appended;
\* and Join of the TRC returned returns the same list.  When Join returns an
\* error, it returns the empty TRC.
C22_JoinAppends ==
    pkiCall.op = "Join" =>
        LET in == pkiCall.trc.Certificates
            out == pkiRet.trc.Certificates
            again == JoinTx([certs |-> certs, keys |-> privKeys], pkiRet.trc)
        IN  IF pkiRet.err = ""
            THEN /\ out = in \o Missing(in)
                 /\ SubSeq(out, 1, Len(in)) = in
                 /\ \A i \in Len(in) + 1 .. Len(out) : ValidateCert(out[i]) # "AS"
                 /\ again.err = "" /\ again.trc.Certificates = out
            ELSE pkiRet.trc = EmptyTRC

\* Join adds the two certificates the list lacks after the two it was given
C22_Witness ==
    /\ pkiCall.op = "Join" /\ pkiRet.err = ""
    /\ Len(pkiCall.trc.Certificates) = 2
    /\ pkiCall.trc.Certificates[1] = ForeignRoot
    /\ "Sensitive" \in DOMAIN certs
    /\ pkiCall.trc.Certificates[2] = certs["Sensitive"]
    /\ pkiRet.trc.Certificates =
         <<ForeignRoot, certs["Sensitive"], certs["Root"], certs["Regular"]>>

(***************************************************************************)
(*               Claims about the generation of TRCs (C23 - C25)           *)
(***************************************************************************)
\* a call of one of the two GenerateBaseTRC has returned
Generated == pkiCall.op \in {"GenerateBaseTRC", "GenerateBaseTRCStandalone"}

\* the bundle holds the three certificates of a TRC, for the ISD i
BundleFits(i) ==
    /\ {"Root", "Sensitive", "Regular"} \subseteq DOMAIN certs
    /\ \A k \in {"Root", "Sensitive", "Regular"} : certs[k].IA.ISD = i

\* the validity period is not empty once truncated
ValidityFits(validity) == Truncate(validity.NotBefore) < Truncate(validity.NotAfter)

GeneratedFields ==
    (/\ pkiCall.op = "GenerateBaseTRC" /\ pkiRet.err = ""
     /\ {"Root", "Sensitive", "Regular"} \subseteq DOMAIN certs)
    => LET T == pkiRet.trc[1] IN
       /\ T.Quorum = 1 /\ T.Votes = <<>> /\ T.GracePeriod = 0 /\ ~T.NoTrustReset
       /\ T.Validity = [NotBefore |-> Truncate(pkiCall.validity.NotBefore),
                        NotAfter |-> Truncate(pkiCall.validity.NotAfter)]
       /\ T.Validity.NotBefore % 2 = 0 /\ T.Validity.NotAfter % 2 = 0
       /\ T.CoreASes = pkiCall.coreASes
       /\ T.AuthoritativeASes = pkiCall.authASes
       /\ T.Certificates = <<certs["Root"], certs["Sensitive"], certs["Regular"]>>
       /\ TRCValidate(T) = ""

\* such a TRC is handed to a machine of its ISD that has no current TRC
FedToMachine ==
    /\ pkiCall.op = "Update" /\ pkiCall.from = "GenerateBaseTRC"
    /\ prePki.current = <<>>
    /\ pkiCall.trc.ID.ISD = machineISD

ExposedFields(trc) ==
    [ID |-> trc.ID, Validity |-> trc.Validity, Quorum |-> trc.Quorum,
     CoreASes |-> trc.CoreASes, AuthoritativeASes |-> trc.AuthoritativeASes,
     Description |-> trc.Description, Votes |-> trc.Votes,
     GracePeriod |-> trc.GracePeriod, Certificates |-> trc.Certificates]

\* C25: every base TRC T that GenerateBaseTRC returns is read back from its
\* Raw payload with the same ID, Validity, Quorum, CoreASes,
\* AuthoritativeASes, Description, Votes, GracePeriod and Certificates, and
\* passes validation.
C25_RawRoundTrip ==
    (Generated /\ pkiRet.err = "" /\ pkiCall.version = pkiCall.baseVersion) =>
        LET T == pkiRet.trc[1] IN
        /\ ExposedFields(Decode(T.Raw)) = ExposedFields(T)
        /\ TRCValidate(T) = ""


(***************************************************************************)
(*   The control plane: the direct-link client (controlplane/client.go)    *)
(*   and the table of active direct paths (controlplane/impl.go)           *)
(***************************************************************************)
\* the neighbors registered in Discovery, by SCIONAddress
NB == "1-ff00:0:111"
NC == "1-ff00:0:112"
Neighbors == {NB, NC}
\* the destinations asked of GetPaths: the neighbors and one other AS
Dests == Neighbors \cup {"1-ff00:0:113"}

\* Neighbor.Address
Address(n) == IF n = NB THEN "b:1" ELSE "c:2"

\* []byte(s) of an address
Bytes(s) ==
    CASE s = "b:1" -> <<98, 58, 49>>
      [] s = "c:2" -> <<99, 58, 50>>

\* how a request ends: httpClient.Do fails (the peer is not authenticated in
\* the TLS handshake, no answer in time, the context is done), or it returns
\* a response with a status other than 200, or one with status 200 of which
\* the body cannot be read, or one that is read to its end
DoOutcomes ==
    {"TLSHandshake", "Timeout", "Canceled", "Status500", "BodyError", "OK200"}

\* the error http.Client.Do returns: nil, or a *url.Error around the cause
DoError(o) ==
    IF o \in {"TLSHandshake", "Timeout", "Canceled"}
    THEN [type |-> "*url.Error", cause |-> o]
    ELSE [type |-> "nil", cause |-> ""]

\* httpResp.StatusCode
StatusCode(o) == IF o = "Status500" THEN 500 ELSE 200

\* err.(*tls.RecordHeaderError): the dynamic type of err itself
IsRecordHeaderError(err) == err.type = "*tls.RecordHeaderError"

\* the path stored for a neighbor that answered its beacon
DirectPath(n) ==
    [Segments |-> <<[ID |-> Bytes(Address(n)), Interfaces |-> <<1>>]>>]

\* ControlPlaneImpl.SetActiveDirectPath
SetActiveDirectPath(tbl, destination, path) == (destination :> path) @@ tbl

\* ControlPlaneImpl.GetPaths(ctx, src, dst): the paths and the error
GetPathsTx(tbl, dst) ==
    IF dst \notin DOMAIN tbl THEN [paths |-> <<>>, err |-> "NoDirectPath"]
    ELSE [paths |-> <<tbl[dst]>>, err |-> ""]

\* a bug: the path is stored whatever the status of the response
ProbeTx_IgnoresStatus(tbl, n, o) ==
    IF DoError(o).type # "nil"
    THEN [table |-> tbl, fetched |-> IsRecordHeaderError(DoError(o))]
    ELSE IF o = "BodyError" THEN [table |-> tbl, fetched |-> FALSE]
    ELSE [table |-> SetActiveDirectPath(tbl, n, DirectPath(n)), fetched |-> FALSE]

\* a bug: the path is stored under the underlay address of the neighbor
ProbeTx_KeyedByAddress(tbl, n, o) ==
    IF DoError(o).type # "nil"
    THEN [table |-> tbl, fetched |-> IsRecordHeaderError(DoError(o))]
    ELSE IF StatusCode(o) # 200 THEN [table |-> tbl, fetched |-> FALSE]
    ELSE IF o = "BodyError" THEN [table |-> tbl, fetched |-> FALSE]
    ELSE [table |-> SetActiveDirectPath(tbl, Address(n), DirectPath(n)),
          fetched |-> FALSE]

\* the body of the loop of sendBeaconsToNeighbors for the neighbor n whose
\* request ended as o: the table afterwards, and whether fetchTrustMaterial
\* was called
ProbeTx(tbl, n, o) ==
    IF DoError(o).type # "nil"
    THEN [table |-> tbl, fetched |-> IsRecordHeaderError(DoError(o))]
    ELSE IF StatusCode(o) # 200 THEN [table |-> tbl, fetched |-> FALSE]
    ELSE IF o = "BodyError" THEN [table |-> tbl, fetched |-> FALSE]
    ELSE [table |-> SetActiveDirectPath(tbl, n, DirectPath(n)), fetched |-> FALSE]

\* a bug: a failed probe ends the round
AfterProbe_ReturnsOnFailure(o) == IF o = "OK200" THEN "continue" ELSE "return"

\* how the body of the loop ends for a request that ended as o: every
\* branch ends in continue or at the end of the body, none in return
AfterProbe(o) == "continue"

\* how a call of fetchTrustMaterial ends: the request cannot be sent, the
\* status is not 200, the body cannot be decoded, or all is well
CallOutcomes == {"SendError", "Status404", "UnmarshalError", "OK200"}

\* fetchTrustMaterial with the TRC call ending as t and the Chains call as
\* c: the calls made, the error returned, and the local trust store
\* afterwards.  What the calls return is logged and dropped.
FetchTrustMaterialTx(store, t, c) ==
    IF t # "OK200" THEN [calls |-> <<"TRC">>, err |-> "TRC", store |-> store]
    ELSE IF c # "OK200"
    THEN [calls |-> <<"TRC", "Chains">>, err |-> "Chains", store |-> store]
    ELSE [calls |-> <<"TRC", "Chains">>, err |-> "", store |-> store]

\* the handlers of the server
Handlers ==
    {"handleHello", "handleBeacon", "handleSegments",
     "handleSegmentsRegistration", "handleChains", "handleTRC"}

\* a counter that stops at 2
UpTo2(n) == IF n < 2 THEN n + 1 ELSE 2

\* how the request to n can end, sent with the context done or not
Outcomes(n, sentDone) ==
    IF sentDone THEN {"Canceled"}
    ELSE (IF n \in reliable THEN {"OK200"} ELSE DoOutcomes \ {"Canceled"})
         \cup (IF cancelled THEN {"Canceled"} ELSE {})

\* NewControlPlaneImpl, NewDirectLinkClient; the neighbors are registered
InitControl ==
    /\ macFactory = "nil"
    /\ RouterIdle /\ TrustIdle /\ PkiIdle /\ ConcIdle
    /\ cpPc = "new" /\ cancelled = FALSE /\ tickPending = FALSE
    /\ todo = {} /\ inFlight = <<>> /\ table = <<>> /\ localTrust = {}
    /\ reliable \in SUBSET Neighbors
    /\ preTable = <<>> /\ cpEvent = [op |-> "none"]
    /\ ok200 = {} /\ roundsDone = 0 /\ roundsAfterCancel = 0
    /\ ticksAfterCancel = 0 /\ pendingAtCancel = FALSE
    /\ probes = <<>>

\* go MonitorNeighbors(ctx, interval): the ticker is made
MonitorNeighbors ==
    /\ cpPc = "new"
    /\ cpPc' = "select"
    /\ cpEvent' = [op |-> "MonitorNeighbors"]
    /\ preTable' = table
    /\ UNCHANGED <<probes, cancelled, tickPending, todo, inFlight, table, localTrust,
                   reliable, ok200, roundsDone, roundsAfterCancel,
                   ticksAfterCancel, pendingAtCancel,
                   routerVars, trustVars, pkiVars, concVars>>

\* the context is cancelled
Cancel ==
    /\ ~cancelled
    /\ cancelled' = TRUE
    /\ pendingAtCancel' = tickPending
    /\ cpEvent' = [op |-> "Cancel"]
    /\ preTable' = table
    /\ UNCHANGED <<probes, cpPc, tickPending, todo, inFlight, table, localTrust,
                   reliable, ok200, roundsDone, roundsAfterCancel,
                   ticksAfterCancel, routerVars, trustVars, pkiVars, concVars>>

\* an interval has passed: the ticker puts a tick in its channel, unless one
\* waits there
Tick ==
    /\ cpPc \notin {"new", "returned"}
    /\ ~tickPending
    /\ tickPending' = TRUE
    /\ ticksAfterCancel' = IF cancelled THEN UpTo2(ticksAfterCancel)
                           ELSE ticksAfterCancel
    /\ cpEvent' = [op |-> "Tick"]
    /\ preTable' = table
    /\ UNCHANGED <<probes, cpPc, cancelled, todo, inFlight, table, localTrust,
                   reliable, ok200, roundsDone, roundsAfterCancel,
                   pendingAtCancel, routerVars, trustVars, pkiVars, concVars>>

\* the select takes the tick: sendBeaconsToNeighbors reads the neighbors
StartRound ==
    /\ cpPc = "select" /\ tickPending
    /\ tickPending' = FALSE
    /\ cpPc' = "round"
    /\ todo' = Neighbors
    /\ probes' = [n \in Neighbors |-> 0]
    /\ roundsAfterCancel' = IF cancelled THEN UpTo2(roundsAfterCancel)
                            ELSE roundsAfterCancel
    /\ cpEvent' = [op |-> "StartRound"]
    /\ preTable' = table
    /\ UNCHANGED <<cancelled, inFlight, table, localTrust, reliable, ok200,
                   roundsDone, ticksAfterCancel, pendingAtCancel,
                   routerVars, trustVars, pkiVars, concVars>>

\* the select takes ctx.Done(): MonitorNeighbors returns
Stop ==
    /\ cpPc = "select" /\ cancelled
    /\ cpPc' = "returned"
    /\ cpEvent' = [op |-> "Stop"]
    /\ preTable' = table
    /\ UNCHANGED <<probes, cancelled, tickPending, todo, inFlight, table, localTrust,
                   reliable, ok200, roundsDone, roundsAfterCancel,
                   ticksAfterCancel, pendingAtCancel,
                   routerVars, trustVars, pkiVars, concVars>>

\* the beacon request to the next neighbor is sent
ProbeStart ==
    /\ cpPc = "round"
    /\ \E n \in todo :
        /\ inFlight' = <<n, cancelled>>
        /\ todo' = todo \ {n}
        /\ cpEvent' = [op |-> "ProbeStart", n |-> n]
    /\ cpPc' = "probing"
    /\ preTable' = table
    /\ UNCHANGED <<probes, cancelled, tickPending, table, localTrust, reliable, ok200,
                   roundsDone, roundsAfterCancel, ticksAfterCancel,
                   pendingAtCancel, routerVars, trustVars, pkiVars, concVars>>

\* the request ends and the rest of the loop body runs
ProbeFinish ==
    /\ cpPc = "probing"
    /\ \E o \in Outcomes(inFlight[1], inFlight[2]) :
        LET out == ProbeTx(table, inFlight[1], o) IN
        /\ table' = out.table
        /\ ok200' = IF o = "OK200" THEN ok200 \cup {inFlight[1]} ELSE ok200
        /\ cpEvent' = [op |-> "Probe", n |-> inFlight[1], outcome |-> o,
                       fetched |-> out.fetched]
        /\ todo' = IF AfterProbe(o) = "continue" THEN todo ELSE {}
    /\ probes' = [probes EXCEPT ![inFlight[1]] = UpTo2(@)]
    /\ cpPc' = "round"
    /\ inFlight' = <<>>
    /\ preTable' = table
    /\ UNCHANGED <<cancelled, tickPending, localTrust, reliable,
                   roundsDone, roundsAfterCancel, ticksAfterCancel,
                   pendingAtCancel, routerVars, trustVars, pkiVars, concVars>>

\* sendBeaconsToNeighbors returns
EndRound ==
    /\ cpPc = "round" /\ todo = {}
    /\ cpPc' = "select"
    /\ roundsDone' = UpTo2(roundsDone)
    /\ cpEvent' = [op |-> "EndRound"]
    /\ preTable' = table
    /\ UNCHANGED <<probes, cancelled, tickPending, todo, inFlight, table, localTrust,
                   reliable, ok200, roundsAfterCancel, ticksAfterCancel,
                   pendingAtCancel, routerVars, trustVars, pkiVars, concVars>>

\* a call of GetPaths
GetPaths ==
    /\ \E dst \in Dests :
        cpEvent' = [op |-> "GetPaths", dst |-> dst, ret |-> GetPathsTx(table, dst)]
    /\ preTable' = table
    /\ UNCHANGED <<probes, cpPc, cancelled, tickPending, todo, inFlight, table,
                   localTrust, reliable, ok200, roundsDone, roundsAfterCancel,
                   ticksAfterCancel, pendingAtCancel,
                   routerVars, trustVars, pkiVars, concVars>>

\* the server serves a request
HandleRPC ==
    /\ \E h \in Handlers : cpEvent' = [op |-> "Handle", handler |-> h]
    /\ preTable' = table
    /\ UNCHANGED <<probes, cpPc, cancelled, tickPending, todo, inFlight, table,
                   localTrust, reliable, ok200, roundsDone, roundsAfterCancel,
                   ticksAfterCancel, pendingAtCancel,
                   routerVars, trustVars, pkiVars, concVars>>

\* a call of fetchTrustMaterial for a neighbor
FetchTrustMaterial ==
    /\ \E n \in Neighbors, t \in CallOutcomes, c \in CallOutcomes :
        LET out == FetchTrustMaterialTx(localTrust, t, c) IN
        /\ localTrust' = out.store
        /\ cpEvent' = [op |-> "FetchTrustMaterial", n |-> n, trc |-> t,
                       chains |-> c, calls |-> out.calls, err |-> out.err,
                       before |-> localTrust]
    /\ preTable' = table
    /\ UNCHANGED <<probes, cpPc, cancelled, tickPending, todo, inFlight, table,
                   reliable, ok200, roundsDone, roundsAfterCancel,
                   ticksAfterCancel, pendingAtCancel,
                   routerVars, trustVars, pkiVars, concVars>>

NextControl ==
    \/ MonitorNeighbors \/ Cancel \/ Tick \/ StartRound \/ Stop
    \/ ProbeStart \/ ProbeFinish \/ EndRound
    \/ GetPaths \/ HandleRPC \/ FetchTrustMaterial

SpecControl == InitControl /\ [][NextControl]_vars

\* the loop of MonitorNeighbors and the path lookups beside it
NextMonitor ==
    \/ MonitorNeighbors \/ Cancel \/ Tick \/ StartRound \/ Stop
    \/ ProbeStart \/ ProbeFinish \/ EndRound \/ GetPaths

\* The loop of MonitorNeighbors goes on: time passes and the ticker fires, a
\* request ends (it is bound to the context and to the timers of the
\* transport), and a select that finds both channels ready chooses between
\* them at random, so that the done context is chosen in the end.
SpecMonitor ==
    /\ InitControl /\ [][NextMonitor]_vars
    /\ WF_vars(Tick) /\ WF_vars(StartRound) /\ WF_vars(ProbeStart)
    /\ WF_vars(ProbeFinish) /\ WF_vars(EndRound) /\ SF_vars(Stop)


(***************************************************************************)
(*                Claims about the control plane (C26 - C30)               *)
(***************************************************************************)
\* C26: at every point GetPaths(_, d) returns a path exactly if an earlier
\* beacon probe to d completed with status 200 (the response read to its
\* end); it then returns the one path [{ID: the bytes of d's underlay
\* address, Interfaces: [1]}]; and the table changes only in the step of a
\* probe that completed with 200, never in a server handler, a failed probe
\* or any other step.
C26_TableSetBySuccessfulBeacon ==
    /\ \A d \in Dests :
          /\ GetPathsTx(table, d).err = "" <=> d \in ok200
          /\ d \in ok200 =>
               GetPathsTx(table, d).paths =
                   <<[Segments |-> <<[ID |-> Bytes(Address(d)),
                                      Interfaces |-> <<1>>]>>]>>
    /\ DOMAIN table \subseteq Neighbors
    /\ cpEvent.op = "GetPaths" =>
          /\ cpEvent.ret.err = "" <=> cpEvent.dst \in ok200
          /\ cpEvent.ret.err # "" => cpEvent.ret.paths = <<>>
    /\ table # preTable => (cpEvent.op = "Probe" /\ cpEvent.outcome = "OK200")
    /\ (cpEvent.op = "Probe" /\ cpEvent.outcome # "OK200") => table = preTable

\* one neighbor has answered with 200 and has its path, the probe of the
\* other has just failed on its status and it has none
C26_Witness ==
    /\ NB \in ok200 /\ NC \notin ok200
    /\ cpEvent.op = "Probe" /\ cpEvent.n = NC /\ cpEvent.outcome = "Status500"
    /\ GetPathsTx(table, NB).err = "" /\ GetPathsTx(table, NC).err # ""
    /\ GetPathsTx(table, NB).paths[1].Segments[1].ID = <<98, 58, 49>>

\* C27: a probe that fails in the TLS handshake calls fetchTrustMaterial for
\* that neighbor in the same tick and leaves the table entry alone; every
\* round probes every neighbor, so the neighbor is probed again in the next.
C27_TLSFailureFetchesTrustMaterial ==
    /\ (cpEvent.op = "Probe" /\ cpEvent.outcome = "TLSHandshake") =>
          (cpEvent.fetched /\ table = preTable)
    /\ cpEvent.op = "StartRound" => todo = Neighbors

\* C28: fetchTrustMaterial makes the TRC call and then the Chains call; when
\* both succeed it returns nil and the local trust store holds the TRC and
\* the chains; when the TRC call fails it returns the error, makes no Chains
\* call and the store is as before.
C28_FetchedMaterialStored ==
    cpEvent.op = "FetchTrustMaterial" =>
        /\ cpEvent.trc = "OK200" => cpEvent.calls = <<"TRC", "Chains">>
        /\ (cpEvent.trc = "OK200" /\ cpEvent.chains = "OK200") =>
              (cpEvent.err = "" /\ {"TRC", "Chains"} \subseteq localTrust)
        /\ cpEvent.trc # "OK200" =>
              /\ cpEvent.err # "" /\ cpEvent.calls = <<"TRC">>
              /\ localTrust = cpEvent.before


\* MonitorNeighbors returns once the context is done, and after that the
\* client leaves the table alone
ReturnsAfterCancel ==
    /\ (cancelled /\ cpPc # "new") ~> (cpPc = "returned")
    /\ [][cpPc = "returned" => (cpPc' = "returned" /\ table' = table)]_vars

\* what the loop does keep: a probe round begins after the cancellation only
\* by taking a tick, the one that was waiting when the context was cancelled
\* or one that fired later
RoundsAfterCancelTakeTicks ==
    roundsAfterCancel <= (IF pendingAtCancel THEN 1 ELSE 0) + ticksAfterCancel

\* C29: after the context is cancelled MonitorNeighbors eventually returns,
\* once it has returned the client never again changes the table, and at
\* most one probe round begins after the cancellation.
C29_AtMostOneRoundAfterCancel ==
    /\ ReturnsAfterCancel
    /\ [](roundsAfterCancel <= 1)

\* GetPaths finds exactly the direct path to NB
OnePathToNB ==
    /\ GetPathsTx(table, NB).err = ""
    /\ Len(GetPathsTx(table, NB).paths) = 1
    /\ Len(GetPathsTx(table, NB).paths[1].Segments) = 1
    /\ GetPathsTx(table, NB).paths[1].Segments[1].ID = Bytes(Address(NB))

\* C30: with NB a neighbor that answers every beacon with 200 and a context
\* that is not cancelled, the table has an entry for NB when the first probe
\* round is complete, which it eventually is; from the moment the table has
\* the entry, GetPaths to NB returns exactly one path, of one segment whose
\* ID is the bytes of the underlay address of NB.
C30_DirectLinkLiveness ==
    /\ (NB \in reliable /\ cpPc # "new" /\ ~cancelled)
          ~> ((roundsDone >= 1 /\ NB \in DOMAIN table) \/ cancelled)
    /\ []((NB \in reliable /\ roundsDone >= 1 /\ ~cancelled) => OnePathToNB)
    /\ [](NB \in DOMAIN table => OnePathToNB)
    /\ [][(NB \in DOMAIN table) => (NB \in DOMAIN table')]_vars
    /\ []((cpEvent.op = "GetPaths" /\ cpEvent.dst = NB /\ NB \in reliable
             /\ roundsDone >= 1 /\ ~cancelled)
          => (cpEvent.ret.err = "" /\ Len(cpEvent.ret.paths) = 1))

\* after the first round GetPaths has returned the path to NB
C30_Witness ==
    /\ NB \in reliable /\ roundsDone = 1 /\ ~cancelled
    /\ cpEvent.op = "GetPaths" /\ cpEvent.dst = NB
    /\ cpEvent.ret.err = "" /\ Len(cpEvent.ret.paths) = 1
    /\ cpEvent.ret.paths[1].Segments[1].ID = <<98, 58, 49>>

(***************************************************************************)
(*   FORWARDER: concurrent Process calls that share the processor pool     *)
(*   (pkg/dataplane/router.go)                                             *)
(***************************************************************************)
\* the goroutines that call Process, each on a buffer of its own
ProcTasks == {"g1", "g2", "g3"}

\* the processors that the pool's New function creates, numbered in the
\* order of their creation
ProcIDs == 1..Cardinality(ProcTasks)

\* a hop field with the MAC that verifies under info
Signed(info, hop) == [hop EXCEPT !.Mac = MAC(info, hop)]

\* the packets and ingress interfaces of the calls: one that is no SCION
\* packet, one whose delivery to a local host panics after the path was
\* written back, one forwarded to a neighbor, one whose path does not decode
ProcInfo == [ConsDir |-> TRUE, Timestamp |-> 1000, SegID |-> 1]
LastHop ==
    Signed(ProcInfo, [ConsIngress |-> 1, ConsEgress |-> 0, ExpTime |-> 0, Mac |-> 0])
FirstHop ==
    Signed(ProcInfo, [ConsIngress |-> 0, ConsEgress |-> 2, ExpTime |-> 0, Mac |-> 0])
NoPacketInput == [P |-> Garbage, I |-> 0]
PanicInput ==
    [P |-> MkPacket(LocalIA, "T4Svc", PathHops - 1, ProcInfo, LastHop), I |-> 1]
EgressInput ==
    [P |-> MkPacket(OtherIA, "T4Ip", 0, ProcInfo, FirstHop), I |-> 0]
BadPathInput ==
    [P |-> MkSegPacket(LocalIA, "T4Ip", <<0, PathHops, 0>>, 0, 0,
                       ProcInfo, FirstHop, {}), I |-> 0]

\* each goroutine sends its own kind of packets
ProcInputs(g) ==
    CASE g = "g1" -> {NoPacketInput, BadPathInput}
      [] g = "g2" -> {EgressInput}
      [] OTHER -> {PanicInput}

\* what time.Now() returns in the calls
ProcTime == Expires([Timestamp |-> 1000], [ExpTime |-> 0])

\* a processor as New returns it: nothing decoded
NewProcessor ==
    [DstIA |-> "", DstAddrType |-> "", RawDstAddr |-> "", buf |-> "",
     scionPath |-> [ok |-> FALSE, CurrINF |-> 0, CurrHF |-> 0,
                    SegLen |-> <<0, 0, 0>>, NumINF |-> 0, NumHops |-> 0,
                    InfoFields |-> <<>>, HopFields |-> <<>>]]

\* a goroutine that is not in Process
NoProcess ==
    [pc |-> "idle", pre |-> Garbage, pkt |-> Garbage, I |-> 0, proc |-> 0,
     used |-> FALSE, res |-> NoResult]

\* the variables the calls leave alone
procFrame ==
    <<macFactory, pc, pre, pkt, ingressID, now, res,
      directPathsMx, lockCalls, completedWrite, dbMx, txs,
      trustVars, pkiVars, cpVars>>

InitPool ==
    /\ macFactory = "cmac"
    /\ RouterIdle /\ TrustIdle /\ PkiIdle /\ CpIdle
    /\ directPathsMx = <<>> /\ lockCalls = <<>> /\ completedWrite = <<>>
    /\ dbMx = "" /\ txs = <<>>
    /\ poolOnce = "new" /\ procPool = {} /\ procs = <<>>
    /\ procCalls = [g \in ProcTasks |-> NoProcess]

\* goroutine g calls Process(packet, ingressID)
CallProcess(g) ==
    /\ procCalls[g].pc = "idle"
    /\ \E in \in ProcInputs(g) :
        procCalls' = [procCalls EXCEPT ![g] =
            [NoProcess EXCEPT !.pc = "once", !.pre = in.P, !.pkt = in.P,
                              !.I = in.I]]
    /\ UNCHANGED <<poolOnce, procPool, procs, procFrame>>

\* r.poolOnce.Do: the first caller runs the function, the callers that come
\* while it runs wait for it to end
OnceDo(g) ==
    /\ procCalls[g].pc = "once"
    /\ poolOnce = "new"
    /\ poolOnce' = "running"
    /\ procCalls' = [procCalls EXCEPT ![g].pc = "init"]
    /\ UNCHANGED <<procPool, procs, procFrame>>

\* r.pool = &sync.Pool{New: ...}, and Do returns
PoolInit(g) ==
    /\ procCalls[g].pc = "init"
    /\ poolOnce' = "done"
    /\ procPool' = {}
    /\ procCalls' = [procCalls EXCEPT ![g].pc = "get"]
    /\ UNCHANGED <<procs, procFrame>>

\* r.poolOnce.Do when the pool has been made
OncePass(g) ==
    /\ procCalls[g].pc = "once"
    /\ poolOnce = "done"
    /\ procCalls' = [procCalls EXCEPT ![g].pc = "get"]
    /\ UNCHANGED <<poolOnce, procPool, procs, procFrame>>

\* a bug: Get hands out a processor and leaves it in the pool
Get_LeavesInPool(g) ==
    /\ procCalls[g].pc = "get"
    /\ \E p \in ProcIDs :
        /\ \/ p \in procPool /\ procs' = procs
           \/ p = Cardinality(DOMAIN procs) + 1
              /\ procs' = (p :> NewProcessor) @@ procs
        /\ procPool' = procPool \cup {p}
        /\ procCalls' = [procCalls EXCEPT ![g].pc = "decode", ![g].proc = p,
                                          ![g].used = p \in procPool]
    /\ UNCHANGED <<poolOnce, procFrame>>

\* r.pool.Get(): a processor taken out of the pool, or a new one from New
\* (the pool is free to drop what was put into it)
Get(g) ==
    /\ procCalls[g].pc = "get"
    /\ \E p \in ProcIDs :
        /\ \/ p \in procPool /\ procs' = procs
           \/ p = Cardinality(DOMAIN procs) + 1
              /\ procs' = (p :> NewProcessor) @@ procs
        /\ procPool' = procPool \ {p}
        /\ procCalls' = [procCalls EXCEPT ![g].pc = "decode", ![g].proc = p,
                                          ![g].used = p \in procPool]
    /\ UNCHANGED <<poolOnce, procFrame>>

\* the reset, DecodeLayers into proc.scionLayer, whose path refers to the
\* bytes of the caller's buffer, and DecodeFromBytes into proc.scionPath
DecodeStep(g) ==
    LET c  == procCalls[g]
        sp == DecodeFromBytes(c.pkt.path)
    IN  /\ c.pc = "decode"
        /\ procs' = [procs EXCEPT ![c.proc] =
              IF ~c.pkt.decodes THEN [@ EXCEPT !.buf = ""]
              ELSE [DstIA |-> c.pkt.DstIA, DstAddrType |-> c.pkt.DstAddrType,
                    RawDstAddr |-> c.pkt.RawDstAddr, buf |-> g,
                    scionPath |-> sp]]
        /\ procCalls' = [procCalls EXCEPT ![g] =
              IF c.pkt.decodes /\ sp.ok THEN [c EXCEPT !.pc = "forward"]
              ELSE [c EXCEPT !.pc = "put", !.res = Err("InvalidPacket")]]
        /\ UNCHANGED <<poolOnce, procPool, procFrame>>

\* steps 2 to 8 on what the processor holds; the path is written back
\* through proc.scionLayer.Path, into the buffer it refers to
ForwardStep(g) ==
    LET c    == procCalls[g]
        proc == procs[c.proc]
        held == [decodes |-> TRUE, DstIA |-> proc.DstIA,
                 DstAddrType |-> proc.DstAddrType,
                 RawDstAddr |-> proc.RawDstAddr,
                 path |-> procCalls[proc.buf].pkt.path]
        out  == Forward(macFactory, held, proc.scionPath, c.I, ProcTime)
    IN  /\ c.pc = "forward"
        /\ procs' = [procs EXCEPT ![c.proc].scionPath =
                        DecodeFromBytes(out.pkt.path)]
        /\ procCalls' = [h \in ProcTasks |->
              LET w == IF h = proc.buf
                       THEN [procCalls[h] EXCEPT !.pkt.path = out.pkt.path]
                       ELSE procCalls[h]
              IN  IF h = g THEN [w EXCEPT !.pc = "put", !.res = out.res]
                  ELSE w]
        /\ UNCHANGED <<poolOnce, procPool, procFrame>>

\* the deferred r.pool.Put(proc), which also runs when the call panics, and
\* Process returns
Put(g) ==
    /\ procCalls[g].pc = "put"
    /\ procPool' = procPool \cup {procCalls[g].proc}
    /\ procCalls' = [procCalls EXCEPT ![g] = NoProcess]
    /\ UNCHANGED <<poolOnce, procs, procFrame>>

NextPool ==
    \E g \in ProcTasks :
        \/ CallProcess(g) \/ OnceDo(g) \/ PoolInit(g) \/ OncePass(g)
        \/ Get(g) \/ DecodeStep(g) \/ ForwardStep(g) \/ Put(g)

SpecPool == InitPool /\ [][NextPool]_vars

(***************************************************************************)
(*   CONTROL PLANE: concurrent GetPaths and SetActiveDirectPath calls      *)
(*   around directPathsMx (pkg/controlplane/impl.go)                       *)
(***************************************************************************)
\* the goroutines that call into the table
LockTasks == {"t1", "t2", "t3"}

\* the goroutines that read the table (the path queries of the data plane)
\* and those that write it (the probe rounds)
LockReaders == {"t1", "t3"}
LockWriters == {"t1", "t2"}

\* the destinations and paths the calls are made with
LockDests == {NB, NC}
LockPaths == {DirectPath(NB), DirectPath(NC)}

\* a map entry in the middle of an assignment: what a read that races with
\* the write can find
Torn == [Segments |-> <<>>]

\* a call that has not begun
NoCall ==
    [pc |-> "idle", op |-> "none", dst |-> NB, path |-> Torn,
     atLock |-> <<>>, ret |-> [paths |-> <<>>, err |-> ""]]

\* the variables the calls below leave alone
lockFrame ==
    <<cpPc, cancelled, tickPending, todo, inFlight, localTrust, reliable,
      preTable, cpEvent, ok200, roundsDone, roundsAfterCancel,
      ticksAfterCancel, pendingAtCancel, probes,
      poolOnce, procPool, procs, procCalls, dbMx, txs,
      routerVars, trustVars, pkiVars>>

\* the path of the last completed SetActiveDirectPath(d, .), <<>> if none
LastCompleted(d) ==
    IF d \in DOMAIN completedWrite THEN <<completedWrite[d]>> ELSE <<>>

InitLock ==
    /\ macFactory = "nil"
    /\ RouterIdle /\ TrustIdle /\ PkiIdle /\ CpIdle
    /\ poolOnce = "new" /\ procPool = {} /\ procs = <<>> /\ procCalls = <<>>
    /\ dbMx = "" /\ txs = <<>>
    /\ directPathsMx = [writer |-> "", pending |-> "", readers |-> {}]
    /\ lockCalls = [t \in LockTasks |-> NoCall]
    /\ completedWrite = <<>>

\* task t calls GetPaths(ctx, src, dst)
CallGetPaths(t) ==
    /\ t \in LockReaders
    /\ lockCalls[t].pc = "idle"
    /\ \E d \in LockDests :
        lockCalls' = [lockCalls EXCEPT ![t] =
                         [NoCall EXCEPT !.pc = "rlock", !.op = "GetPaths",
                                        !.dst = d]]
    /\ UNCHANGED <<table, directPathsMx, completedWrite, lockFrame>>

\* task t calls SetActiveDirectPath(destination, path)
CallSetActiveDirectPath(t) ==
    /\ t \in LockWriters
    /\ lockCalls[t].pc = "idle"
    /\ \E d \in LockDests, p \in LockPaths :
        lockCalls' = [lockCalls EXCEPT ![t] =
                         [NoCall EXCEPT !.pc = "lock", !.op = "Set",
                                        !.dst = d, !.path = p]]
    /\ UNCHANGED <<table, directPathsMx, completedWrite, lockFrame>>

\* a bug: the read lock is given while a writer holds the lock
RLock_IgnoresWriter(t) ==
    /\ lockCalls[t].pc = "rlock"
    /\ directPathsMx' = [directPathsMx EXCEPT !.readers = @ \cup {t}]
    /\ lockCalls' = [lockCalls EXCEPT ![t].pc = "read",
                        ![t].atLock = LastCompleted(lockCalls[t].dst)]
    /\ UNCHANGED <<table, completedWrite, lockFrame>>

\* directPathsMx.RLock(): given when no writer holds or awaits the lock
RLock(t) ==
    /\ lockCalls[t].pc = "rlock"
    /\ directPathsMx.writer = "" /\ directPathsMx.pending = ""
    /\ directPathsMx' = [directPathsMx EXCEPT !.readers = @ \cup {t}]
    /\ lockCalls' = [lockCalls EXCEPT ![t].pc = "read",
                        ![t].atLock = LastCompleted(lockCalls[t].dst)]
    /\ UNCHANGED <<table, completedWrite, lockFrame>>

\* path, ok := c.activeDirectPaths[dst] and the result built from it
ReadTable(t) ==
    /\ lockCalls[t].pc = "read"
    /\ lockCalls' = [lockCalls EXCEPT ![t].pc = "runlock",
                        ![t].ret = GetPathsTx(table, lockCalls[t].dst)]
    /\ UNCHANGED <<table, directPathsMx, completedWrite, lockFrame>>

\* the deferred directPathsMx.RUnlock(), and GetPaths returns
RUnlock(t) ==
    /\ lockCalls[t].pc = "runlock"
    /\ directPathsMx' = [directPathsMx EXCEPT !.readers = @ \ {t}]
    /\ lockCalls' = [lockCalls EXCEPT ![t].pc = "done"]
    /\ UNCHANGED <<table, completedWrite, lockFrame>>

\* directPathsMx.Lock(), first half: the writer is alone among the writers
\* and announces itself, which keeps new readers out
LockAnnounce(t) ==
    /\ lockCalls[t].pc = "lock"
    /\ directPathsMx.writer = "" /\ directPathsMx.pending = ""
    /\ directPathsMx' = [directPathsMx EXCEPT !.pending = t]
    /\ lockCalls' = [lockCalls EXCEPT ![t].pc = "drain"]
    /\ UNCHANGED <<table, completedWrite, lockFrame>>

\* directPathsMx.Lock(), second half: the readers have left
LockAcquire(t) ==
    /\ lockCalls[t].pc = "drain"
    /\ directPathsMx.readers = {}
    /\ directPathsMx' = [directPathsMx EXCEPT !.pending = "", !.writer = t]
    /\ lockCalls' = [lockCalls EXCEPT ![t].pc = "write"]
    /\ UNCHANGED <<table, completedWrite, lockFrame>>

\* c.activeDirectPaths[destination] = path begins: a map assignment is not
\* atomic
WriteBegin(t) ==
    /\ lockCalls[t].pc = "write"
    /\ table' = SetActiveDirectPath(table, lockCalls[t].dst, Torn)
    /\ lockCalls' = [lockCalls EXCEPT ![t].pc = "writing"]
    /\ UNCHANGED <<directPathsMx, completedWrite, lockFrame>>

\* the assignment is complete
WriteEnd(t) ==
    /\ lockCalls[t].pc = "writing"
    /\ table' = SetActiveDirectPath(table, lockCalls[t].dst, lockCalls[t].path)
    /\ lockCalls' = [lockCalls EXCEPT ![t].pc = "unlock"]
    /\ UNCHANGED <<directPathsMx, completedWrite, lockFrame>>

\* the deferred directPathsMx.Unlock(), and SetActiveDirectPath returns
Unlock(t) ==
    /\ lockCalls[t].pc = "unlock"
    /\ directPathsMx' = [directPathsMx EXCEPT !.writer = ""]
    /\ completedWrite' =
          (lockCalls[t].dst :> lockCalls[t].path) @@ completedWrite
    /\ lockCalls' = [lockCalls EXCEPT ![t].pc = "done"]
    /\ UNCHANGED <<table, lockFrame>>

\* the caller has the result and is free to call again
LockReturn(t) ==
    /\ lockCalls[t].pc = "done"
    /\ lockCalls' = [lockCalls EXCEPT ![t] = NoCall]
    /\ UNCHANGED <<table, directPathsMx, completedWrite, lockFrame>>

NextLock ==
    \E t \in LockTasks :
        \/ CallGetPaths(t) \/ CallSetActiveDirectPath(t)
        \/ RLock(t) \/ ReadTable(t) \/ RUnlock(t)
        \/ LockAnnounce(t) \/ LockAcquire(t) \/ WriteBegin(t) \/ WriteEnd(t)
        \/ Unlock(t) \/ LockReturn(t)

\* the steps of a call that wait for nothing but the scheduler
LockStep(t) ==
    \/ LockAcquire(t) \/ ReadTable(t) \/ RUnlock(t)
    \/ WriteBegin(t) \/ WriteEnd(t) \/ Unlock(t)

\* the steps of a call that wait for the lock to be free
LockEnter(t) == RLock(t) \/ LockAnnounce(t)

\* The goroutines are scheduled: a step that stays possible is taken.  A
\* goroutine blocked in RLock or Lock is woken by the unlock that frees the
\* lock for it (sync.RWMutex queues it), so a lock that becomes free again
\* and again is obtained.
SpecLock ==
    /\ InitLock /\ [][NextLock]_vars
    /\ \A t \in LockTasks : WF_vars(LockStep(t)) /\ SF_vars(LockEnter(t))

(***************************************************************************)
(*   TRUST STORE: concurrent InsertTRC calls, each in a bbolt Update       *)
(*   transaction (pkg/trust/impl/bbolt/db.go)                              *)
(***************************************************************************)
\* the goroutines that insert into the store
TxTasks == {"w1", "w2", "w3"}

\* the signed TRCs they insert: two IDs, two payloads and two sets of
\* signatures for each
TxIDs == {[ISD |-> 1, Base |-> 1, Serial |-> 1], [ISD |-> 1, Base |-> 1, Serial |-> 256]}
TxTRCs == {x \in SignedTRCs : x.TRC.ID \in TxIDs}

\* a task that has not called
NoTx ==
    [pc |-> "idle", trc |-> EmptySignedTRC, view |-> <<>>,
     out |-> [inserted |-> FALSE, err |-> "", trcs |-> <<>>]]

\* the variables the transactions leave alone
txFrame ==
    <<chains, preTrcs, preChains, call, ret,
      poolOnce, procPool, procs, procCalls,
      directPathsMx, lockCalls, completedWrite,
      routerVars, pkiVars, cpVars>>

InitWriters ==
    /\ macFactory = "nil"
    /\ RouterIdle /\ TrustIdle /\ PkiIdle /\ CpIdle
    /\ poolOnce = "new" /\ procPool = {} /\ procs = <<>> /\ procCalls = <<>>
    /\ directPathsMx = <<>> /\ lockCalls = <<>> /\ completedWrite = <<>>
    /\ dbMx = ""
    /\ txs = [t \in TxTasks |-> NoTx]

\* task t calls InsertTRC(ctx, trc)
CallInsertTRC(t) ==
    /\ txs[t].pc = "idle"
    /\ \E x \in TxTRCs :
        txs' = [txs EXCEPT ![t] = [NoTx EXCEPT !.pc = "begin", !.trc = x]]
    /\ UNCHANGED <<trcs, dbMx, txFrame>>

\* a bug: a write transaction begins while another one is open
TxBegin_NoLock(t) ==
    /\ txs[t].pc = "begin"
    /\ dbMx' = t
    /\ txs' = [txs EXCEPT ![t].pc = "body", ![t].view = trcs]
    /\ UNCHANGED <<trcs, txFrame>>

\* b.db.Update begins the transaction: it waits for the writer lock of the
\* database and sees the committed content
TxBegin(t) ==
    /\ txs[t].pc = "begin"
    /\ dbMx = ""
    /\ dbMx' = t
    /\ txs' = [txs EXCEPT ![t].pc = "body", ![t].view = trcs]
    /\ UNCHANGED <<trcs, txFrame>>

\* the function given to Update runs on the transaction's view
TxBody(t) ==
    /\ txs[t].pc = "body"
    /\ txs' = [txs EXCEPT ![t].pc = "end",
                          ![t].out = InsertTRCTx(txs[t].view, txs[t].trc)]
    /\ UNCHANGED <<trcs, dbMx, txFrame>>

\* Update commits when the function returned nil and rolls back when it
\* returned an error, releases the writer lock, and InsertTRC returns
TxEnd(t) ==
    /\ txs[t].pc = "end"
    /\ trcs' = IF txs[t].out.err = "" THEN txs[t].out.trcs ELSE trcs
    /\ dbMx' = ""
    /\ txs' = [txs EXCEPT ![t].pc = "done"]
    /\ UNCHANGED txFrame

NextWriters ==
    \E t \in TxTasks :
        CallInsertTRC(t) \/ TxBegin(t) \/ TxBody(t) \/ TxEnd(t)

SpecWriters == InitWriters /\ [][NextWriters]_vars

(***************************************************************************)
(*          Claims about the forwarder (C33 - C35 and C40)                 *)
(***************************************************************************)
\* the buffer decodes and its path indices are in bounds
PreIndexable ==
    /\ pre.decodes
    /\ SegLenOK(pre.path.SegLen)
    /\ pre.path.CurrINF < NumINF(pre.path.SegLen)
    /\ pre.path.CurrHF < NumHops(pre.path.SegLen)

\* C33: Process reports the error of the earliest failing step, in the
\* order decode or index failure, expiry, ingress, MAC, local destination
\* (from a neighbour, egress 0), egress 0 from the local host, egress
\* without a next hop, path overflow; the unknown egress is reported with
\* the path index as it was.
C33_EarliestErrorWins ==
    pc = "done" =>
        CASE ~PreIndexable -> res = Err("InvalidPacket")
          [] now > PreExpiry -> res = Err("HopExpired")
          [] ingressID # 0 /\ ingressID # PreIngress ->
                res = Err("IngressMismatch")
          [] macFactory # "nil" /\ ~PreMacMatches -> res = Err("MACInvalid")
          [] ingressID # 0 /\ PreEgress = 0 ->
                IF pre.DstIA # LocalIA
                THEN res = Err("LocalDestinationMismatch")
                ELSE res.err \notin
                        {"InvalidPacket", "HopExpired", "IngressMismatch",
                         "MACInvalid", "LocalDestinationMismatch",
                         "EgressZeroFromInternal",
                         "UnknownExternalInterface", "PathOverflow"}
          [] ingressID = 0 /\ PreEgress = 0 ->
                res = Err("EgressZeroFromInternal")
          [] PreEgress \notin DOMAIN ExternalNextHops ->
                /\ res = Err("UnknownExternalInterface")
                /\ pkt.path.CurrHF = pre.path.CurrHF
          [] pre.path.CurrHF + 1 >= NumHops(pre.path.SegLen) ->
                res = Err("PathOverflow")
          [] OTHER -> res.kind = "NextHop"

\* a packet from the local host with a bad MAC, egress 0: MACInvalid; and
\* one with an unknown egress on the last hop field: no overflow reported
C33_Witness ==
    /\ pc = "done" /\ PreIndexable /\ now <= PreExpiry
    /\ ingressID # 0 /\ ingressID = PreIngress
    /\ macFactory # "nil" /\ ~PreMacMatches
    /\ PreEgress \notin DOMAIN ExternalNextHops /\ PreEgress # 0
    /\ pre.path.CurrHF + 1 >= NumHops(pre.path.SegLen)
    /\ res = Err("MACInvalid")

\* C34: when all checks pass, the egress is non-zero and has a next hop and
\* the current hop field is the last one of the path, Process returns
\* PathOverflow, no NextHop, and the buffer is as it was: neither the
\* incremented CurrHF nor a SegID update is written.
C34_OverflowWritesNothing ==
    (/\ PassedAllChecks
     /\ PreEgress # 0
     /\ PreEgress \in DOMAIN ExternalNextHops
     /\ pre.path.CurrHF + 1 >= NumHops(pre.path.SegLen))
    => (/\ res = Err("PathOverflow")
        /\ res.addr = NoAddr
        /\ pkt = pre)

\* an overflow in construction direction, where the SegID update was made
\* on the decoded path, and one against it after the ingress update
C34_Witness ==
    /\ PassedAllChecks /\ macFactory = "cmac"
    /\ PreEgress \in DOMAIN ExternalNextHops
    /\ pre.path.CurrHF + 1 = NumHops(pre.path.SegLen)
    /\ PreInfo.ConsDir /\ PreHop.Mac # 0
    /\ res = Err("PathOverflow") /\ pkt = pre

\* the SegID of the current info field after a call
PostSegID == pkt.path.InfoFields[pre.path.CurrINF + 1].SegID

\* C35: in a successful call the SegID of the current info field is folded
\* with the hop MAC at most once: at ingress (ingressID # 0) iff ConsDir is
\* false, before the MAC is verified; at egress (egress # 0) iff ConsDir is
\* true, after the MAC is verified; not at all for a packet from the local
\* host against construction direction; and the buffer holds the resulting
\* SegID, on local delivery too.
C35_SegIDUpdatedOnce ==
    (pc = "done" /\ res.kind = "NextHop") =>
        /\ PostSegID =
              IF ingressID # 0 /\ ~PreInfo.ConsDir
              THEN Xor(PreInfo.SegID, PreHop.Mac)
              ELSE IF PreEgress # 0 /\ PreInfo.ConsDir
              THEN Xor(PreInfo.SegID, PreHop.Mac)
              ELSE PreInfo.SegID
        /\ macFactory # "nil" =>
              PreHop.Mac = MAC([PreInfo EXCEPT !.SegID =
                                   IF ingressID # 0 /\ ~PreInfo.ConsDir
                                   THEN Xor(@, PreHop.Mac) ELSE @], PreHop)

\* a local delivery against construction direction: the folded SegID is in
\* the buffer
C35_Witness ==
    /\ pc = "done" /\ res.kind = "NextHop" /\ res.addr.port = 0
    /\ macFactory = "cmac"
    /\ ingressID # 0 /\ ~PreInfo.ConsDir /\ PreHop.Mac # 0
    /\ PostSegID = Xor(PreInfo.SegID, PreHop.Mac)
    /\ PostSegID # PreInfo.SegID

\* the path of the buffer after the call differs from the one before it at
\* most in CurrHF and in the SegID of the current info field
OnlyCurrHFAndSegIDDiffer ==
    /\ pkt.path.CurrINF = pre.path.CurrINF
    /\ pkt.path.SegLen = pre.path.SegLen
    /\ pkt.path.Rsv = pre.path.Rsv
    /\ pkt.path.HopFields = pre.path.HopFields
    /\ DOMAIN pkt.path.InfoFields = DOMAIN pre.path.InfoFields
    /\ \A i \in DOMAIN pre.path.InfoFields :
          IF i = pre.path.CurrINF + 1
          THEN [pkt.path.InfoFields[i] EXCEPT !.SegID = 0] =
               [pre.path.InfoFields[i] EXCEPT !.SegID = 0]
          ELSE pkt.path.InfoFields[i] = pre.path.InfoFields[i]
    /\ pkt.path.CurrHF =
          IF PreEgress # 0 THEN pre.path.CurrHF + 1 ELSE pre.path.CurrHF

\* the same for a packet whose reserved bits are all 0
FrameWithoutReservedBits ==
    (pc = "done" /\ res.kind = "NextHop" /\ pre.path.Rsv = {}) =>
        OnlyCurrHFAndSegIDDiffer

\* C40: Process never changes CurrINF or SegLen, and on a successful call
\* the only path bytes that may differ from the input are CurrHF, one more
\* on egress, and the SegID of the current info field, also when the new
\* CurrHF lies in the next segment.
C40_OnlyCurrHFAndSegIDChange ==
    /\ pc = "done" =>
          /\ pkt.path.CurrINF = pre.path.CurrINF
          /\ pkt.path.SegLen = pre.path.SegLen
    /\ (pc = "done" /\ res.kind = "NextHop") => OnlyCurrHFAndSegIDDiffer

(***************************************************************************)
(*        Claims about the certificate filters of the machine (C36)        *)
(***************************************************************************)
FilterOps ==
    {"RootCertificates", "VotingCertificates", "SensitiveCertificates",
     "RegularCertificates"}

\* r is s with some elements left out, the others in the order of s
RECURSIVE IsSubsequence(_, _)
IsSubsequence(r, s) ==
    IF r = <<>> THEN TRUE
    ELSE IF s = <<>> THEN FALSE
    ELSE IF Head(r) = Head(s) THEN IsSubsequence(Tail(r), Tail(s))
    ELSE IsSubsequence(r, Tail(s))

\* certificate lists a TRC can carry once it is in memory: a Root, a
\* Sensitive, a Regular, an AS certificate and one with no valid kind
FilterCerts ==
    {generateRootCert(IA110, 1), generateVotingCert(IA110, "Sensitive", 1),
     generateVotingCert(IA110, "Regular", 1), generateASCert(IA110, 1, <<>>),
     [generateVotingCert(IA110, "Regular", 2) EXCEPT !.IsCA = TRUE]}
FilterLists ==
    {<<>>} \cup {<<a>> : a \in FilterCerts}
           \cup {<<a, b>> : a \in FilterCerts, b \in FilterCerts}
           \cup {<<a, b, a>> : a \in FilterCerts, b \in FilterCerts}

\* the four filters partition the certificates of the TRC cur by kind
FiltersPartition(cur) ==
    LET list == cur[1].Certificates
        root == RootCertificatesTx(cur).certs
        vote == VotingCertificatesTx(cur).certs
        sens == SensitiveCertificatesTx(cur).certs
        reg  == RegularCertificatesTx(cur).certs
    IN  /\ Range(root) \cap Range(sens) = {}
        /\ Range(root) \cap Range(reg) = {}
        /\ Range(sens) \cap Range(reg) = {}
        /\ Range(vote) = Range(sens) \cup Range(reg)
        /\ Len(vote) = Len(sens) + Len(reg)
        /\ IsSubsequence(sens, vote) /\ IsSubsequence(reg, vote)
        /\ \A r \in {root, vote, sens, reg} : IsSubsequence(r, list)
        /\ \A i \in DOMAIN list :
              LET k == Classify(list[i])
                  n(r) == Cardinality({j \in DOMAIN r : r[j] = list[i]})
                  inList == Cardinality({j \in DOMAIN list : list[j] = list[i]})
              IN  /\ n(root) = IF k = "Root" THEN inList ELSE 0
                  /\ n(sens) = IF k = "Sensitive" THEN inList ELSE 0
                  /\ n(reg) = IF k = "Regular" THEN inList ELSE 0

\* C36: RootCertificates, SensitiveCertificates and RegularCertificates are
\* pairwise disjoint, VotingCertificates is the union of the last two, each
\* result keeps the order of the TRC's list, a certificate that fails
\* classification is in no result, every filter returns ErrNoTRC when no
\* TRC is installed, and no filter call changes current, pending or the
\* certificate list.
C36_FiltersPartitionCertificates ==
    pkiCall.op \in FilterOps =>
        /\ current = prePki.current /\ pending = prePki.pending
        /\ current = <<>> =>
              /\ pkiRet = [certs |-> <<>>, err |-> "NoTRC"]
              /\ \A F \in {RootCertificatesTx(current),
                           VotingCertificatesTx(current),
                           SensitiveCertificatesTx(current),
                           RegularCertificatesTx(current)} : F.err = "NoTRC"
        /\ current # <<>> =>
              /\ pkiRet.err = ""
              /\ IsSubsequence(pkiRet.certs, current[1].Certificates)
              /\ FiltersPartition(current)
        /\ \A list \in FilterLists :
              FiltersPartition(<<[Certificates |-> list]>>)

\* VotingCertificates has returned the Sensitive and the Regular
\* certificate of an installed TRC that also holds a Root certificate
C36_Witness ==
    /\ pkiCall.op = "VotingCertificates" /\ current # <<>>
    /\ Len(pkiRet.certs) = 2
    /\ Len(current[1].Certificates) = 3
    /\ RootCertificatesTx(current).certs # <<>>
    /\ SensitiveCertificatesTx(current).certs # <<>>
    /\ RegularCertificatesTx(current).certs # <<>>

(***************************************************************************)
(*        Claims about the life of the TRC state machine (C38)             *)
(***************************************************************************)
\* an Update call returns success only on a machine without a current TRC,
\* and then the machine has one
SuccessInstalls ==
    (pkiCall.op = "Update" /\ pkiRet.err = "") =>
        (prePki.current = <<>> /\ current = <<pkiCall.trc>>)

\* C38: over any sequence of Update calls at most one returns success: a
\* call succeeds only while there is no current TRC and sets it, and once
\* set, current never changes; current is absent or a base TRC (Serial =
\* Base) of the machine's ISD; pending is always empty.
C38_OneBaseTRCForLife ==
    /\ []SuccessInstalls
    /\ [][current # <<>> => current' = current]_vars
    /\ [](current # <<>> =>
            /\ current[1].ID.Serial = current[1].ID.Base
            /\ current[1].ID.ISD = machineISD)
    /\ [](pending = <<>>)
    /\ [][machineISD' = machineISD]_vars

\* a valid base TRC of the machine's ISD, other than the current one, has
\* been refused
C38_Witness ==
    /\ pkiCall.op = "Update" /\ pkiRet.err # ""
    /\ prePki.current # <<>> /\ current = prePki.current
    /\ Validate(pkiCall.trc)
    /\ pkiCall.trc.ID.ISD = machineISD
    /\ pkiCall.trc.ID.Serial = pkiCall.trc.ID.Base
    /\ pkiCall.trc # current[1]

(***************************************************************************)
(*               Claims about the probe round (C37)                        *)
(***************************************************************************)
\* C37: failures abort neither a probe round nor the loop: when a round
\* ends, every neighbor of the snapshot taken at its start has been probed
\* exactly once, whatever the outcomes of the other probes; a round that
\* has begun ends; and after it the loop waits for the next tick, which
\* begins the next round unless the context is cancelled.
C37_FailuresAbortNothing ==
    /\ [](cpEvent.op = "EndRound" =>
            /\ \A n \in Neighbors : probes[n] = 1
            /\ cpPc = "select")
    /\ [](cpPc \in {"round", "probing"} =>
            \A n \in Neighbors :
                probes[n] = IF n \in todo \/ (cpPc = "probing" /\ inFlight[1] = n)
                            THEN 0 ELSE 1)
    /\ (cpPc \in {"round", "probing"}) ~> (cpEvent.op = "EndRound")
    /\ (cpEvent.op = "EndRound" /\ ~cancelled) ~> (cpPc = "round" \/ cancelled)

\* in the first round the probe of NB has failed, and NC has been probed
\* after it with success
C37_Witness ==
    /\ cpEvent.op = "Probe" /\ cpEvent.n = NC /\ cpEvent.outcome = "OK200"
    /\ roundsDone = 0 /\ probes[NB] = 1 /\ probes[NC] = 1
    /\ NB \notin DOMAIN table /\ NC \in DOMAIN table

(***************************************************************************)
(*          Claims about the lock of the direct-link table (C32)           *)
(***************************************************************************)
\* C32: under any interleaving of GetPaths and SetActiveDirectPath calls,
\* GetPaths(_, d) returns "no path" or exactly one path, the one of the most
\* recent SetActiveDirectPath(d, .) that completed before the read lock was
\* taken, never a partly written value; and every call returns.
C32_ReadersSeeCompletedWrites ==
    /\ [](\A t \in LockTasks :
            (lockCalls[t].op = "GetPaths" /\ lockCalls[t].pc \in {"runlock", "done"}) =>
                /\ lockCalls[t].ret =
                      IF lockCalls[t].atLock = <<>>
                      THEN [paths |-> <<>>, err |-> "NoDirectPath"]
                      ELSE [paths |-> lockCalls[t].atLock, err |-> ""]
                /\ \A i \in DOMAIN lockCalls[t].ret.paths :
                      lockCalls[t].ret.paths[i] \in LockPaths)
    /\ [](directPathsMx.writer # "" => directPathsMx.readers = {})
    /\ \A t \in LockTasks :
          (lockCalls[t].pc # "idle") ~> (lockCalls[t].pc = "done")

\* a reader that took the lock after the second write to NB has returned
\* the path of that write, while a writer waits for it to leave
C32_Witness ==
    \E t, w \in LockTasks :
        /\ lockCalls[t].op = "GetPaths" /\ lockCalls[t].pc = "runlock"
        /\ lockCalls[t].dst = NB
        /\ lockCalls[t].ret = [paths |-> <<DirectPath(NC)>>, err |-> ""]
        /\ lockCalls[w].pc = "drain" /\ lockCalls[w].dst = NB
        /\ lockCalls[w].path = DirectPath(NB)

(***************************************************************************)
(*          Claims about concurrent writers of the trust store (C39)       *)
(***************************************************************************)
\* the calls that have returned, and among them those that returned
\* (true, nil) for the TRC ID id
TxDone == {t \in TxTasks : txs[t].pc = "done"}
TxWinners(id) ==
    {t \in TxDone : txs[t].trc.TRC.ID = id /\ txs[t].out.inserted
                      /\ txs[t].out.err = ""}

\* at most one transaction is open, each ID has at most one call that
\* returned (true, nil), the TRC stored under an ID is the one of that call,
\* and every call that returned otherwise returned after that call
WritersSerialised ==
    /\ Cardinality({t \in TxTasks : txs[t].pc \in {"body", "end"}}) <= 1
    /\ \A id \in TxIDs :
          /\ Cardinality(TxWinners(id)) <= 1
          /\ StoredRaw(trcs, id) = {txs[w].trc.Raw : w \in TxWinners(id)}
    /\ \A t \in TxDone :
          t \in TxWinners(txs[t].trc.TRC.ID)
          \/ (~txs[t].out.inserted /\ TxWinners(txs[t].trc.TRC.ID) # {})

\* C39 as stated: concurrent InsertTRC calls are serialised; of the calls
\* with one TRC ID exactly one returns (true, nil) and its TRC is the stored
\* one; another call returns (false, nil) when its signed TRC is the same and
\* a conflict error when its signed TRC is byte-different.
C39_ByteDifferentConflicts ==
    /\ WritersSerialised
    /\ \A t \in TxDone : \A w \in TxWinners(txs[t].trc.TRC.ID) \ {t} :
          txs[t].out.err =
              IF txs[t].trc.Raw = txs[w].trc.Raw THEN "" ELSE "ConflictingTRC"

\* C39 amended: concurrent InsertTRC calls are serialised; of the calls with
\* one TRC ID exactly one returns (true, nil) and its TRC is the stored one;
\* another call returns (false, nil) when its payload bytes (TRC.Raw) equal
\* those of the stored TRC and a conflict error when they differ.
C39_WritersSerialised ==
    /\ WritersSerialised
    /\ \A t \in TxDone : \A w \in TxWinners(txs[t].trc.TRC.ID) \ {t} :
          txs[t].out.err =
              IF txs[t].trc.TRC.Raw = txs[w].trc.TRC.Raw
              THEN "" ELSE "ConflictingTRC"

\* three calls with one ID have returned: one inserted, one with the same
\* payload under other signatures returned (false, nil), one with another
\* payload conflicted
C39_Witness ==
    \E w, s, c \in TxTasks :
        /\ TxDone = TxTasks
        /\ w \in TxWinners(txs[w].trc.TRC.ID)
        /\ txs[s].trc.TRC = txs[w].trc.TRC /\ txs[s].trc.Raw # txs[w].trc.Raw
        /\ txs[s].out.inserted = FALSE /\ txs[s].out.err = ""
        /\ txs[c].trc.TRC.ID = txs[w].trc.TRC.ID
        /\ txs[c].trc.TRC.Raw # txs[w].trc.TRC.Raw
        /\ txs[c].out.err = "ConflictingTRC"

(***************************************************************************)
(*          Claims about concurrent Process calls (C31)                    *)
(***************************************************************************)
\* the calls that hold a processor
Holding == {g \in ProcTasks : procCalls[g].pc \in {"decode", "forward", "put"}}

\* C31: when goroutines call Process concurrently on buffers of their own,
\* the first calls included, no processor is held by two calls or held while
\* in the pool; a buffer is changed by its own call only; and each call's
\* result and buffer afterwards are those of that call alone on a fresh
\* router, whatever the processor has decoded before.
C31_ProcessThreadSafe ==
    /\ \A g, h \in Holding : g # h => procCalls[g].proc # procCalls[h].proc
    /\ \A g \in Holding :
          procCalls[g].proc \in DOMAIN procs \ procPool
    /\ poolOnce # "done" => Holding = {}
    /\ \A g \in ProcTasks :
          LET c == procCalls[g]
              alone == Process(macFactory, c.pre, c.I, ProcTime)
          IN  /\ c.pc \in {"once", "init", "get", "decode", "forward"} =>
                    c.pkt = c.pre
              /\ c.pc = "put" =>
                    c.res = alone.res /\ c.pkt = alone.pkt

\* a call has forwarded its packet to a neighbor on a processor that came
\* out of the pool with what an earlier call left in it, while a second
\* call has panicked in local delivery and a third waits for the pool to
\* be made or handed on
C31_Witness ==
    \E g, h, k \in ProcTasks :
        /\ procCalls[g].pc = "put" /\ procCalls[g].used
        /\ procCalls[g].res.kind = "NextHop"
        /\ procCalls[g].pkt # procCalls[g].pre
        /\ procCalls[h].pc = "put" /\ procCalls[h].res = Panic
        /\ procCalls[k].pc = "get"

====
